---- MODULE Spec2Model ----
(***************************************************************************)
(* Model of the usage aggregation store of perses/metrics-usage            *)
(* (database/database.go): the three maps, the absence counters, the four  *)
(* ingestion queues with their consumer goroutines, DeleteMetric, and the  *)
(* two mutexes.  A consumer's step runs from one blocking point (a channel *)
(* receive or a mutex Lock) to the next.                                   *)
(***************************************************************************)
EXTENDS Integers, Sequences, FiniteSets, TLC

VARIABLES
    metrics,                  \* d.metrics: name -> [labels, usage]
    metricLastTimeSeen,       \* d.metricLastTimeSeen: name -> uint8
    threshold,                \* d.threshold (uint8)
    partialMetrics,           \* d.partialMetrics: pattern -> PartialMetric
    usage,                    \* d.usage: the pending buffer, name -> MetricUsage
    metricsQueue,             \* d.metricsQueue
    usageQueue,               \* d.usageQueue
    partialMetricsUsageQueue, \* d.partialMetricsUsageQueue
    labelsQueue,              \* d.labelsQueue
    metricsMutex,             \* d.metricsMutex: "free" or its holder
    partialMetricsUsageMutex, \* d.partialMetricsUsageMutex: "free" or its holder
    mw,                       \* goroutine watchMetricsQueue
    pw,                       \* goroutine watchPartialMetricsUsageQueue
    dm,                       \* a caller of DeleteMetric
    sent,                     \* how many batches / calls the environment issued
    hist,                     \* history of what was applied (observation only)
    rd,                       \* a caller of the Read API (an HTTP handler)
    call,                     \* a call of a pure function: arguments and results
    fl,                       \* goroutine flush (snapshot persistence)
    col,                      \* the metric collector (metricCollector.Execute)
    uw,                       \* goroutine watchUsageQueue
    lw                        \* goroutine watchLabelsQueue

vars == <<metrics, metricLastTimeSeen, threshold, partialMetrics, usage,
          metricsQueue, usageQueue, partialMetricsUsageQueue, labelsQueue,
          metricsMutex, partialMetricsUsageMutex, mw, pw, dm, sent, hist,
          rd, call, fl, col, uw, lw>>

(***************************************************************************)
(* Bounds of the model.                                                    *)
(***************************************************************************)
\* The largest threshold New is given.
MaxThreshold == 2
\* How many batches and DeleteMetric calls the environment issues in all.
MaxInputs == 4
\* The same, in the specification of the whole store.
MaxStoreInputs == 3
\* The same, in the specification checked for liveness.
MaxLiveInputs == 2
\* The same, in the specification with a request of the Read API.
MaxReadInputs == 2
\* Fragments of a drawn partial metric name.
MaxFragments == 3
\* The same as MaxInputs, in the specification with varied labels batches.
MaxLabelInputs == 3
\* The same, in the specification with a pattern that does not compile.
MaxPartialInputs == 3
\* The same, in the specification with the flush goroutine.
MaxFlushInputs == 2
\* SpecCollector: the usage and labels batches sent beside the collector, and
\* the metric lists the collector has waiting in the channel.
MaxCollectorInputs == 1
MaxQueued == 1

(***************************************************************************)
(* Program constants.                                                      *)
(***************************************************************************)
MetricsQueueCap == 10
UsageQueueCap == 250
PartialQueueCap == 250
LabelsQueueCap == 250
Uint8 == 256

\* A nil pointer.  Pointers to structs are records, so nil is one too.  A nil
\* Go set reads as the empty set (len 0, Contains false) and is only written
\* through set.New, set.Merge or after a nil check, so it is modelled as {}.
Null == [null |-> TRUE]
\* No name (a goroutine's local variable that is not set).
NoName == ""

(***************************************************************************)
(* Generic helpers on functions used as Go maps.                           *)
(***************************************************************************)
EmptyMap == [x \in {} |-> Null]

MapPut(m, k, v) == [x \in DOMAIN m \cup {k} |-> IF x = k THEN v ELSE m[x]]

MapDelete(m, k) == [x \in DOMAIN m \ {k} |-> m[x]]

Range(s) == {s[i] : i \in DOMAIN s}

(***************************************************************************)
(* Strings.  A Go string is modelled as the sequence of its characters;    *)
(* Chars spells the names and patterns the environment sends.              *)
(***************************************************************************)
Lower == {"a","b","c","d","e","f","g","h","i","j","k","l","m",
          "n","o","p","q","r","s","t","u","v","w","x","y","z"}
Upper == {"A","B","C","D","E","F","G","H","I","J","K","L","M",
          "N","O","P","Q","R","S","T","U","V","W","X","Y","Z"}
Digit == {"0","1","2","3","4","5","6","7","8","9"}

\* The character class [a-zA-Z0-9_:] of replaceVariableRegexp.
VarChar == Lower \cup Upper \cup Digit \cup {"_", ":"}

Chars(s) ==
    CASE s = "foo_bar" -> <<"f","o","o","_","b","a","r">>
      [] s = "up" -> <<"u","p">>
      [] s = "foo_${suffix}" ->
            <<"f","o","o","_","$","{","s","u","f","f","i","x","}">>
      [] s = "${metric}" -> <<"$","{","m","e","t","r","i","c","}">>
      [] s = "up|" -> <<"u","p","|">>
      [] s = "fb" -> <<"f","b">>
      [] s = "foo_(" -> <<"f","o","o","_","(">>
      [] OTHER -> <<>>

\* s[from..] starts with the characters of prefix.
HasPrefixAt(s, from, prefix) ==
    /\ from + Len(prefix) - 1 <= Len(s)
    /\ \A i \in 1..Len(prefix) : s[from + i - 1] = prefix[i]

\* strings.ReplaceAll(s, old, new): non-overlapping, left to right.
RECURSIVE ReplaceAllFrom(_, _, _, _)
ReplaceAllFrom(s, from, old, new) ==
    IF from > Len(s) THEN <<>>
    ELSE IF HasPrefixAt(s, from, old)
         THEN new \o ReplaceAllFrom(s, from + Len(old), old, new)
         ELSE <<s[from]>> \o ReplaceAllFrom(s, from + 1, old, new)

ReplaceAll(s, old, new) == ReplaceAllFrom(s, 1, old, new)

\* Length of the run of VarChar characters of s that starts at from.
RECURSIVE VarRun(_, _)
VarRun(s, from) ==
    IF from <= Len(s) /\ s[from] \in VarChar THEN 1 + VarRun(s, from + 1) ELSE 0

\* Length of the match of \$\{[a-zA-Z0-9_:]+} at from, 0 when none.
VariableAt(s, from) ==
    IF HasPrefixAt(s, from, <<"$", "{">>)
    THEN LET n == VarRun(s, from + 2)
         IN IF n >= 1 /\ from + 2 + n <= Len(s) /\ s[from + 2 + n] = "}"
            THEN n + 3 ELSE 0
    ELSE 0

\* replaceVariableRegexp.ReplaceAllString(s, "#")
RECURSIVE ReplaceVariablesFrom(_, _)
ReplaceVariablesFrom(s, from) ==
    IF from > Len(s) THEN <<>>
    ELSE IF VariableAt(s, from) > 0
         THEN <<"#">> \o ReplaceVariablesFrom(s, from + VariableAt(s, from))
         ELSE <<s[from]>> \o ReplaceVariablesFrom(s, from + 1)

ReplaceVariables(s) == ReplaceVariablesFrom(s, 1)

\* The loop of generateRegexp that keeps one '#' of every run of '#'.
RECURSIVE CollapseFrom(_, _)
CollapseFrom(s, i) ==
    IF i > Len(s) THEN <<>>
    ELSE IF s[i - 1] = "#" /\ s[i - 1] = s[i]
         THEN CollapseFrom(s, i + 1)
         ELSE <<s[i]>> \o CollapseFrom(s, i + 1)

\* fmt.Sprintf("%c", s[0]): s[0] is the first BYTE of the string, printed as
\* the rune of that value.  For an ASCII character that is the character; the
\* first byte of "é" (0xC3 0xA9) prints as "Ã" (U+00C3).
FirstByteAsRune(c) == IF c = "é" THEN "Ã" ELSE c

\* Mutant: runs of '#' are kept as they are.
CollapseNothing(s) == s

Collapse(s) == <<FirstByteAsRune(s[1])>> \o CollapseFrom(s, 2)

\* regexp.Compile fails on unbalanced parentheses (the malformed fragments
\* the model sends); every other regexp the model builds compiles.
CompileFails(re) ==
    Cardinality({i \in DOMAIN re : re[i] = "("})
        # Cardinality({i \in DOMAIN re : re[i] = ")"})

\* common.NewRegexp(s): regexp.Compile("^(?:" + s + ")$"), the whole
\* expression anchored.  The Regexp keeps s as its source; the group added
\* around s leaves the balance of its parentheses as it is.
NewRegexp(s) == [re |-> [src |-> s], err |-> CompileFails(s)]

\* Mutant: an unconstrained name compiles to ^.+$ instead of nil.
generateRegexpNeverNil(partialMetricName) ==
    LET s == ReplaceVariables(partialMetricName)
    IN IF Len(s) = 0 \/ \A i \in DOMAIN s : s[i] = "#"
       THEN [re |-> [src |-> <<"^", ".", "+", "$">>], err |-> FALSE]
       ELSE LET src == <<"^">> \o ReplaceAll(Collapse(s), <<"#">>, <<".", "+">>)
                              \o <<"$">>
            IN NewRegexp(src)

\* generateRegexp: [re |-> a *common.Regexp ([src |-> its source]) or Null,
\*                  err |-> BOOLEAN]
generateRegexp(partialMetricName) ==
    LET Compile(s) ==
            IF s = <<"#">> \/ Len(s) = 0
            THEN [re |-> Null, err |-> FALSE]
            ELSE LET compileString == Collapse(s)
                 IN IF compileString = <<"#">>
                    THEN [re |-> Null, err |-> FALSE]
                    ELSE LET src == <<"^">>
                                    \o ReplaceAll(compileString, <<"#">>, <<".", "+">>)
                                    \o <<"$">>
                         IN NewRegexp(src)
        \* each intermediate string is bound to its value before it is used
        results ==
            {Compile(s) :
                s \in {ReplaceAll(s1, <<".", "*">>, <<"#">>) :
                    s1 \in {ReplaceAll(s0, <<".", "+">>, <<"#">>) :
                        s0 \in {ReplaceVariables(partialMetricName)}}}}
    IN CHOOSE r \in results : TRUE

(***************************************************************************)
(* Matching.  The strings generateRegexp passes to common.NewRegexp are    *)
(* '^', alternations ('|') of sequences of literal characters and '.+',    *)
(* and '$'.  common.NewRegexp anchors the whole expression: it compiles    *)
(* "^(?:" + s + ")$", so a match starts at offset 0 and ends at the end of *)
(* the name, whichever alternative gives it.  Positions are offsets        *)
(* 0..Len(t).                                                              *)
(***************************************************************************)
RECURSIVE SplitAlternatives(_, _, _)
SplitAlternatives(body, i, cur) ==
    IF i > Len(body) THEN <<cur>>
    ELSE IF body[i] = "|"
         THEN <<cur>> \o SplitAlternatives(body, i + 1, <<>>)
         ELSE SplitAlternatives(body, i + 1, Append(cur, body[i]))

\* The alternatives of a regexp "^...$" built by generateRegexp.
Alternatives(re) == SplitAlternatives(SubSeq(re, 2, Len(re) - 1), 1, <<>>)

RECURSIVE AltMatchEnd(_, _, _, _, _)
RECURSIVE WildMatchEnd(_, _, _, _, _, _)
\* End offset of the preferred match of alt[k..] at offset pos of t, -1 if none.
AltMatchEnd(alt, k, t, pos, toEnd) ==
    IF k > Len(alt)
    THEN IF toEnd /\ pos # Len(t) THEN -1 ELSE pos
    ELSE IF HasPrefixAt(alt, k, <<".", "+">>)
         THEN WildMatchEnd(alt, k + 2, t, pos, Len(t) - pos, toEnd)
         ELSE IF pos < Len(t) /\ t[pos + 1] = alt[k]
              THEN AltMatchEnd(alt, k + 1, t, pos + 1, toEnd)
              ELSE -1

\* '.+' consuming n characters, the longest first.
WildMatchEnd(alt, k, t, pos, n, toEnd) ==
    IF n < 1 THEN -1
    ELSE LET e == AltMatchEnd(alt, k, t, pos + n, toEnd)
         IN IF e # -1 THEN e ELSE WildMatchEnd(alt, k, t, pos, n - 1, toEnd)

RECURSIVE MatchAt(_, _, _, _)
\* End offset of the match of ^(?:^a1|a2|...|an$)$ starting at offset pos,
\* trying alternative a first: the outer '^' admits offset 0 only and the
\* outer '$' makes every alternative run to the end of t.
MatchAt(alts, a, t, pos) ==
    IF a > Len(alts) THEN -1
    ELSE LET e == IF pos # 0 THEN -1
                  ELSE AltMatchEnd(alts[a], 1, t, pos, TRUE)
         IN IF e # -1 THEN e ELSE MatchAt(alts, a + 1, t, pos)

RECURSIVE FindFrom(_, _, _)
\* The leftmost match at or after offset pos: <<start, end>>, <<-1, -1>> if none.
FindFrom(re, t, pos) ==
    IF pos > Len(t) THEN <<-1, -1>>
    ELSE LET e == MatchAt(Alternatives(re.src), 1, t, pos)
         IN IF e # -1 THEN <<pos, e>> ELSE FindFrom(re, t, pos + 1)

\* re.MatchString(t)
MatchString(re, t) == FindFrom(re, t, 0)[1] # -1

RECURSIVE AllMatchesFrom(_, _, _, _)
\* The loop of Regexp.allMatches: the lengths of the matches it delivers.
AllMatchesFrom(re, t, pos, prevMatchEnd) ==
    IF pos > Len(t) THEN <<>>
    ELSE LET m == FindFrom(re, t, pos)
         IN IF m[1] = -1 THEN <<>>
            ELSE LET empty  == m[2] = m[1]
                     accept == ~(empty /\ m[1] = prevMatchEnd)
                     next   == IF empty THEN m[2] + 1 ELSE m[2]
                     rest   == AllMatchesFrom(re, t, next, m[2])
                 IN IF accept THEN <<m[2] - m[1]>> \o rest ELSE rest

\* re.FindAllString(t, -1), as the lengths of the matches.
FindAllString(re, t) == AllMatchesFrom(re, t, 0, -1)

\* Mutant: the full-string match alone decides.
isMatchingNaive(re, metric) == MatchString(re, metric)

\* isMatching
isMatching(re, metric) ==
    IF ~MatchString(re, metric) THEN FALSE
    ELSE \E i \in DOMAIN FindAllString(re, metric) :
            FindAllString(re, metric)[i] > 0

(***************************************************************************)
(* Usage records.  A MetricUsage has three facets, each a set or nil.      *)
(***************************************************************************)
\* set.Merge (a nil set is {}: both early returns give the union too)
\* Mutant: an element present on both sides is dropped.
MergeSetSymDiff(old, new) == (old \ new) \cup (new \ old)

MergeSet(old, new) ==
    IF new = {} THEN old
    ELSE IF old = {} THEN new
    ELSE old \cup new

\* Mutant: the facets drop the elements present on both sides.
MergeUsageDropsShared(old, new) ==
    IF old = Null THEN new
    ELSE IF new = Null THEN old
    ELSE [dashboards     |-> MergeSetSymDiff(old.dashboards, new.dashboards),
          alertRules     |-> MergeSetSymDiff(old.alertRules, new.alertRules),
          recordingRules |-> MergeSetSymDiff(old.recordingRules, new.recordingRules)]

\* Mutant: the dashboards of new are ignored when old has some.
MergeUsageKeepsOldDashboards(old, new) ==
    IF old = Null THEN new
    ELSE IF new = Null THEN old
    ELSE [dashboards     |-> IF old.dashboards # {} THEN old.dashboards
                             ELSE new.dashboards,
          alertRules     |-> MergeSet(old.alertRules, new.alertRules),
          recordingRules |-> MergeSet(old.recordingRules, new.recordingRules)]

\* Mutant: a nil old makes the result nil.
MergeUsageNilOldLoses(old, new) ==
    IF old = Null \/ new = Null THEN old
    ELSE [dashboards     |-> MergeSet(old.dashboards, new.dashboards),
          alertRules     |-> MergeSet(old.alertRules, new.alertRules),
          recordingRules |-> MergeSet(old.recordingRules, new.recordingRules)]

MergeUsage(old, new) ==
    IF old = Null THEN new
    ELSE IF new = Null THEN old
    ELSE [dashboards     |-> MergeSet(old.dashboards, new.dashboards),
          alertRules     |-> MergeSet(old.alertRules, new.alertRules),
          recordingRules |-> MergeSet(old.recordingRules, new.recordingRules)]

\* The references of a usage, facet by facet; a nil usage has none.
Refs(u) ==
    IF u = Null THEN [dashboards |-> {}, alertRules |-> {}, recordingRules |-> {}]
    ELSE u

\* Every reference of a is a reference of b.
RefsIncluded(a, b) ==
    /\ Refs(a).dashboards \subseteq Refs(b).dashboards
    /\ Refs(a).alertRules \subseteq Refs(b).alertRules
    /\ Refs(a).recordingRules \subseteq Refs(b).recordingRules

(***************************************************************************)
(* What the environment sends.                                             *)
(***************************************************************************)
Names == {"foo_bar", "up"}
Patterns == {"foo_${suffix}", "${metric}"}

UsageD1 == [dashboards |-> {"d1"}, alertRules |-> {}, recordingRules |-> {}]
UsageR1 == [dashboards |-> {}, alertRules |-> {"r1"}, recordingRules |-> {}]
UsageValues == {UsageD1, UsageR1}

\* Batches of EnqueueMetricList: lists of names, possibly empty.
MetricBatches == {<<>>, <<"foo_bar">>, <<"up", "foo_bar">>}

\* Batches of EnqueueUsage: name -> usage.
UsageBatches ==
    {[n \in {"foo_bar"} |-> u] : u \in UsageValues}

\* Batches of EnqueuePartialMetricsUsage: pattern -> usage.
PartialBatches ==
    {[p \in {"foo_${suffix}"} |-> UsageD1],
     [p \in Patterns |-> UsageR1]}

\* The patterns without a usable regexp: unconstrained, and not compilable.
UnusablePatterns == {"${metric}", "foo_("}

\* Partial-usage batches that carry unusable patterns beside a usable one.
VariedPartialBatches ==
    {[p \in {"foo_${suffix}"} |-> UsageD1],
     [p \in UnusablePatterns \cup {"foo_${suffix}"} |-> UsageR1],
     [p \in {"foo_("} |-> UsageD1]}

\* Batches of EnqueueLabels: name -> list of label names.
LabelsBatches == {[n \in {"foo_bar"} |-> <<"job">>]}

\* Labels batches with different label names for the same metric.
VariedLabelsBatches ==
    LabelsBatches \cup {[n \in {"foo_bar"} |-> <<"instance">>],
                        [n \in {"foo_bar", "up"} |-> <<"le", "job">>]}

\* What readMetricsInJSONFile may have loaded before the consumers run.
Snapshots == {EmptyMap, [n \in {"up"} |-> [labels |-> {}, usage |-> UsageD1]]}

(***************************************************************************)
(* The store's operations on its maps.                                     *)
(***************************************************************************)
\* Mutant: an omitted batch counts twice.
IncrementCountersTwice(seen) == [n \in DOMAIN seen |-> (seen[n] + 2) % Uint8]

\* watchMetricsQueue, first loop: every stored counter is incremented (uint8).
IncrementCounters(seen) == [n \in DOMAIN seen |-> (seen[n] + 1) % Uint8]

\* Mutant: the counter is set only for a name that has none yet.
ResetCounterNewOnly(seen, metricName) ==
    IF metricName \in DOMAIN seen THEN seen ELSE MapPut(seen, metricName, 0)

\* watchMetricsQueue: d.metricLastTimeSeen[metricName] = 0
ResetCounter(seen, metricName) == MapPut(seen, metricName, 0)

\* watchMetricsQueue: the metric stored for a name not yet in d.metrics.
NewMetric == [labels |-> {}, usage |-> Null]

\* Mutant: the buffered usage is not attached to the new metric.
AttachPendingUsageSkipped(ms, pending, metricName) == ms

\* watchMetricsQueue: the usage buffered for a new metric is attached to it.
AttachPendingUsage(ms, pending, metricName) ==
    IF metricName \in DOMAIN pending
    THEN [ms EXCEPT ![metricName].usage = pending[metricName]]
    ELSE ms

\* watchMetricsQueue: ... and deleted from the buffer.
DropPendingUsage(pending, metricName) == MapDelete(pending, metricName)

\* Mutant: a name is evicted only when its counter is past the threshold.
EvictionCandidatesLate(seen, limit) == {n \in DOMAIN seen : seen[n] > limit}

\* Mutant: a name is evicted one batch early.
EvictionCandidatesEarly(seen, limit) == {n \in DOMAIN seen : ~(seen[n] + 1 < limit)}

\* watchMetricsQueue, last loop: the names whose counter reached the threshold.
EvictionCandidates(seen, limit) == {n \in DOMAIN seen : ~(seen[n] < limit)}

\* matchValidMetric, the body of its loop for one partial metric.
MatchOnePartial(metricName, partialMetric, validMetric) ==
    LET gen == IF partialMetric.matchingRegexp = Null
               THEN generateRegexp(Chars(metricName))
               ELSE [re |-> partialMetric.matchingRegexp, err |-> FALSE]
    IN IF gen.err THEN partialMetric
       ELSE IF gen.re = Null THEN [partialMetric EXCEPT !.matchingRegexp = Null]
       ELSE IF isMatching(gen.re, Chars(validMetric))
            THEN [partialMetric EXCEPT
                    !.matchingRegexp = gen.re,
                    !.matchingMetrics = @ \cup {validMetric}]
            ELSE [partialMetric EXCEPT !.matchingRegexp = gen.re]

\* matchValidMetric (between its Lock and Unlock of partialMetricsUsageMutex).
matchValidMetric(pms, validMetric) ==
    [p \in DOMAIN pms |-> MatchOnePartial(p, pms[p], validMetric)]

\* deleteMetric, before it locks partialMetricsUsageMutex.
\* Mutant: the key is left in the map.
DeleteNothing(m, name) == m

DeleteFromMap(m, name) == MapDelete(m, name)

\* Mutant: the matching sets are left as they are.
ScrubNothing(pms, name) == pms

\* Mutant: a partial metric whose last matching metric is scrubbed is removed.
ScrubDropsEmptied(pms, name) ==
    [p \in {q \in DOMAIN pms : pms[q].matchingMetrics # {name}} |->
        IF name \in pms[p].matchingMetrics
        THEN [pms[p] EXCEPT !.matchingMetrics = @ \ {name}]
        ELSE pms[p]]

\* deleteMetric, under partialMetricsUsageMutex: name leaves every matching set.
ScrubMatchingMetrics(pms, name) ==
    [p \in DOMAIN pms |->
        IF name \in pms[p].matchingMetrics
        THEN [pms[p] EXCEPT !.matchingMetrics = @ \ {name}]
        ELSE pms[p]]

\* Mutant: the scan ranges over every name ever sent, stored or not.
ScanMetricsStale(re, ms) == {m \in Names : MatchString(re, Chars(m))}

\* The test matchPartialMetric applies to each metric of d.metrics.
ScanTest(re, m) == MatchString(re, m)

\* matchPartialMetric, the scan under metricsMutex.
ScanMetrics(re, ms) == {m \in DOMAIN ms : ScanTest(re, Chars(m))}

\* watchUsageQueue: the metrics after a batch.
UsageIntoMetrics(ms, data) ==
    [n \in DOMAIN ms |->
        IF n \in DOMAIN data
        THEN [ms[n] EXCEPT !.usage = MergeUsage(@, data[n])]
        ELSE ms[n]]

\* watchUsageQueue: the pending buffer after a batch.
UsageIntoBuffer(ms, pending, data) ==
    LET unknown == DOMAIN data \ DOMAIN ms
    IN [n \in DOMAIN pending \cup unknown |->
          IF n \in unknown
          THEN MergeUsage(IF n \in DOMAIN pending THEN pending[n] ELSE Null, data[n])
          ELSE pending[n]]

\* watchLabelsQueue: the metrics after a batch.
\* Mutant: a name that is not in the map is skipped.
LabelsKnownOnly(ms, data) ==
    [n \in DOMAIN ms |->
        IF n \notin DOMAIN data THEN ms[n]
        ELSE [ms[n] EXCEPT !.labels = @ \cup Range(data[n])]]

\* Mutant: the labels of the batch replace the set.
LabelsReplaced(ms, data) ==
    [n \in DOMAIN ms \cup DOMAIN data |->
        IF n \notin DOMAIN data THEN ms[n]
        ELSE IF n \notin DOMAIN ms
             THEN [labels |-> Range(data[n]), usage |-> Null]
             ELSE [ms[n] EXCEPT !.labels = Range(data[n])]]

LabelsIntoMetrics(ms, data) ==
    [n \in DOMAIN ms \cup DOMAIN data |->
        IF n \notin DOMAIN data THEN ms[n]
        ELSE IF n \notin DOMAIN ms
             THEN [labels |-> Range(data[n]), usage |-> Null]
             ELSE IF ms[n].labels = {}
                  THEN [ms[n] EXCEPT !.labels = Range(data[n])]
                  ELSE [ms[n] EXCEPT !.labels = @ \cup Range(data[n])]]

\* The store holds every reference of the usage batch data under its keys
\* (as it does directly after the batch was applied).
UsageHeld(ms, pending, data) ==
    \A n \in DOMAIN data :
        IF n \in DOMAIN ms THEN RefsIncluded(data[n], ms[n].usage)
        ELSE n \in DOMAIN pending /\ RefsIncluded(data[n], pending[n])

\* Mutant: the merge also forgets the metrics the pattern matched.
MergePartialUsageForgetsMatches(pms, metricName, u) ==
    [pms EXCEPT ![metricName].usage = MergeUsage(@, u),
                ![metricName].matchingMetrics = {}]

\* watchPartialMetricsUsageQueue: usage merged into a known pattern.
MergePartialUsage(pms, metricName, u) ==
    [pms EXCEPT ![metricName].usage = MergeUsage(@, u)]

\* watchPartialMetricsUsageQueue: a new pattern is stored.
StorePartial(pms, metricName, u, re, matchingMetrics) ==
    MapPut(pms, metricName,
           [usage |-> u, matchingMetrics |-> matchingMetrics, matchingRegexp |-> re])

(***************************************************************************)
(* History: what the consumers applied so far.  Never read by an action    *)
(* of the store to decide what it does.                                    *)
(***************************************************************************)
Min(a, b) == IF a < b THEN a ELSE b

\* absence[n]: consecutive processed metric-list batches that omitted n while
\* n was stored (counted up to the threshold).
AbsenceAfterBatch(h, ms, batch, limit) ==
    [n \in Names |->
        IF n \in DOMAIN ms /\ n \notin Range(batch)
        THEN Min(h.absence[n] + 1, limit) ELSE 0]

\* absence: see above; inAll: the names every processed metric-list batch
\* contained; named: the names some processed batch contained; attributed:
\* per name, the usage loaded or applied by watchUsageQueue so far;
\* evictedLinked: the names evicted while some partial metric listed them;
\* storedUnmatched: the patterns stored while no concrete metric matched;
\* postedPartial: the keys of the bodies posted to /api/v1/partial_metrics;
\* resent: the queues ("usage", "partial") on which a batch was applied whose
\* references the store already held for its keys; reported: the names some
\* processed metric-list batch contained and that were not deleted since.
HistInit(loaded) ==
    [absence       |-> [n \in Names |-> 0],
     inAll         |-> Names,
     named         |-> {},
     attributed    |-> [n \in Names |->
                          IF n \in DOMAIN loaded THEN loaded[n].usage ELSE Null],
     evictedLinked |-> {},
     storedUnmatched |-> {},
     postedPartial |-> {},
     resent |-> {},
     reported |-> {}]

(***************************************************************************)
(* Initial state: New has returned, the snapshot (if any) is loaded, the   *)
(* four consumers wait on their empty queues.                              *)
(***************************************************************************)
\* at: where the goroutine is; batch, i: the batch and the index of the name
\* being handled; cur: the name given to matchValidMetric / deleteMetric;
\* fresh: the names this batch added to d.metrics (observation only).
MwIdle == [at |-> "idle", batch |-> <<>>, i |-> 0, cur |-> NoName, fresh |-> {}]
PwIdle == [at |-> "idle", data |-> EmptyMap, todo |-> {}, cur |-> NoName,
           re |-> Null, scan |-> {}]
DmIdle == [at |-> "idle", cur |-> NoName, ret |-> "none"]
RdIdle == [at |-> "idle"]
NoCall == [at |-> "none"]
\* at: where flush is; data: what json.Marshal returned; written, file:
\* whether the file at d.path was written, and what it holds.
FlIdle == [at |-> "idle", data |-> <<>>, written |-> FALSE, file |-> <<>>]
\* watchUsageQueue and watchLabelsQueue: at is "idle" (waiting on the
\* channel) or "lock" (a batch received, waiting for metricsMutex); data is
\* the batch in hand.
UwIdle == [at |-> "idle", data |-> EmptyMap]
LwIdle == [at |-> "idle", data |-> EmptyMap]
\* last: how the last Execute ended ("none" before the first); cycle: the
\* parity of the number of Execute calls so far.
ColIdle == [last |-> "none", cycle |-> 0]

\* New: the maps, channels and mutexes, whatever cfg.Threshold is.
InitMaps ==
    /\ metrics \in Snapshots
    /\ metricLastTimeSeen = EmptyMap
    /\ partialMetrics = EmptyMap
    /\ usage = EmptyMap
    /\ metricsQueue = <<>>
    /\ usageQueue = <<>>
    /\ partialMetricsUsageQueue = <<>>
    /\ labelsQueue = <<>>
    /\ metricsMutex = "free"
    /\ partialMetricsUsageMutex = "free"
    /\ mw = MwIdle
    /\ pw = PwIdle
    /\ dm = DmIdle
    /\ sent = 0
    /\ hist = HistInit(metrics)
    /\ fl = FlIdle
    /\ col = ColIdle
    /\ uw = UwIdle
    /\ lw = LwIdle

InitStore ==
    /\ InitMaps
    /\ threshold \in 0..MaxThreshold

Init ==
    /\ InitStore
    /\ rd = RdIdle
    /\ call = NoCall

(***************************************************************************)
(* Producers: a send blocks while the channel is full.                     *)
(***************************************************************************)
EnqueueMetricList ==
    /\ sent < MaxInputs
    /\ Len(metricsQueue) < MetricsQueueCap
    /\ \E b \in MetricBatches : metricsQueue' = Append(metricsQueue, b)
    /\ sent' = sent + 1
    /\ UNCHANGED <<metrics, metricLastTimeSeen, threshold, partialMetrics, usage,
                   usageQueue, partialMetricsUsageQueue, labelsQueue, metricsMutex,
                   partialMetricsUsageMutex, mw, pw, dm, hist>>
    /\ UNCHANGED <<rd, call, fl, col, uw, lw>>

EnqueueUsage ==
    /\ sent < MaxInputs
    /\ Len(usageQueue) < UsageQueueCap
    /\ \E b \in UsageBatches : usageQueue' = Append(usageQueue, b)
    /\ sent' = sent + 1
    /\ UNCHANGED <<metrics, metricLastTimeSeen, threshold, partialMetrics, usage,
                   metricsQueue, partialMetricsUsageQueue, labelsQueue, metricsMutex,
                   partialMetricsUsageMutex, mw, pw, dm, hist>>
    /\ UNCHANGED <<rd, call, fl, col, uw, lw>>

EnqueuePartialMetricsUsage ==
    /\ sent < MaxInputs
    /\ Len(partialMetricsUsageQueue) < PartialQueueCap
    /\ \E b \in PartialBatches :
          partialMetricsUsageQueue' = Append(partialMetricsUsageQueue, b)
    /\ sent' = sent + 1
    /\ UNCHANGED <<metrics, metricLastTimeSeen, threshold, partialMetrics, usage,
                   metricsQueue, usageQueue, labelsQueue, metricsMutex,
                   partialMetricsUsageMutex, mw, pw, dm, hist>>
    /\ UNCHANGED <<rd, call, fl, col, uw, lw>>

EnqueueLabels ==
    /\ sent < MaxInputs
    /\ Len(labelsQueue) < LabelsQueueCap
    /\ \E b \in LabelsBatches : labelsQueue' = Append(labelsQueue, b)
    /\ sent' = sent + 1
    /\ UNCHANGED <<metrics, metricLastTimeSeen, threshold, partialMetrics, usage,
                   metricsQueue, usageQueue, partialMetricsUsageQueue, metricsMutex,
                   partialMetricsUsageMutex, mw, pw, dm, hist>>
    /\ UNCHANGED <<rd, call, fl, col, uw, lw>>

\* EnqueuePartialMetricsUsage with batches that carry unusable patterns.
EnqueueVariedPartial ==
    /\ sent < MaxInputs
    /\ Len(partialMetricsUsageQueue) < PartialQueueCap
    /\ \E b \in VariedPartialBatches :
          partialMetricsUsageQueue' = Append(partialMetricsUsageQueue, b)
    /\ sent' = sent + 1
    /\ UNCHANGED <<metrics, metricLastTimeSeen, threshold, partialMetrics, usage,
                   metricsQueue, usageQueue, labelsQueue, metricsMutex,
                   partialMetricsUsageMutex, mw, pw, dm, hist>>
    /\ UNCHANGED <<rd, call, fl, col, uw, lw>>

\* EnqueueLabels with batches that differ in their label names.
EnqueueVariedLabels ==
    /\ sent < MaxInputs
    /\ Len(labelsQueue) < LabelsQueueCap
    /\ \E b \in VariedLabelsBatches : labelsQueue' = Append(labelsQueue, b)
    /\ sent' = sent + 1
    /\ UNCHANGED <<metrics, metricLastTimeSeen, threshold, partialMetrics, usage,
                   metricsQueue, usageQueue, partialMetricsUsageQueue, metricsMutex,
                   partialMetricsUsageMutex, mw, pw, dm, hist>>
    /\ UNCHANGED <<rd, call, fl, col, uw, lw>>

(***************************************************************************)
(* Channel receive.                                                        *)
(***************************************************************************)
\* for data := range queue: the oldest element is received and leaves the
\* channel.
Receive(queue) == [value |-> Head(queue), rest |-> Tail(queue)]

(***************************************************************************)
(* watchMetricsQueue.                                                      *)
(***************************************************************************)
\* Where the loop over the batch goes after the name at index i.
MwAfterName(batch, i) == IF i < Len(batch) THEN "loop" ELSE "evict"

\* A batch is received from the channel; the goroutine goes on to Lock.
MwReceive ==
    /\ mw.at = "idle"
    /\ metricsQueue # <<>>
    /\ metricsQueue' = Receive(metricsQueue).rest
    /\ mw' = [MwIdle EXCEPT !.at = "lock", !.batch = Receive(metricsQueue).value]
    /\ UNCHANGED <<metrics, metricLastTimeSeen, threshold, partialMetrics, usage,
                   usageQueue, partialMetricsUsageQueue, labelsQueue, metricsMutex,
                   partialMetricsUsageMutex, pw, dm, sent, hist>>
    /\ UNCHANGED <<rd, call, fl, col, uw, lw>>

\* metricsMutex is locked and every counter incremented.
MwLock ==
    /\ mw.at = "lock"
    /\ metricsMutex = "free"
    /\ LET batch == mw.batch
       IN /\ metricsMutex' = "mw"
          /\ metricLastTimeSeen' = IncrementCounters(metricLastTimeSeen)
          /\ mw' = [at |-> MwAfterName(batch, 0), batch |-> batch, i |-> 1,
                    cur |-> NoName, fresh |-> {}]
          /\ hist' = [hist EXCEPT
                        !.absence = AbsenceAfterBatch(hist, metrics, batch, threshold),
                        !.inAll = @ \cap Range(batch),
                        !.named = @ \cup Range(batch),
                        !.reported = @ \cup Range(batch)]
    /\ UNCHANGED <<metrics, threshold, partialMetrics, usage, metricsQueue,
                   usageQueue, partialMetricsUsageQueue, labelsQueue,
                   partialMetricsUsageMutex, pw, dm, sent>>
    /\ UNCHANGED <<rd, call, fl, col, uw, lw>>

\* One name of the batch: a known name has its counter reset; a new name is
\* stored and the goroutine goes on to matchValidMetric.
MwName ==
    /\ mw.at = "loop"
    /\ LET metricName == mw.batch[mw.i]
       IN IF metricName \in DOMAIN metrics
          THEN /\ metricLastTimeSeen' = ResetCounter(metricLastTimeSeen, metricName)
               /\ mw' = [mw EXCEPT !.at = MwAfterName(mw.batch, mw.i), !.i = @ + 1]
               /\ UNCHANGED metrics
          ELSE /\ metrics' = MapPut(metrics, metricName, NewMetric)
               /\ mw' = [mw EXCEPT !.at = "matchValid", !.cur = metricName,
                                   !.fresh = @ \cup {metricName}]
               /\ UNCHANGED metricLastTimeSeen
    /\ UNCHANGED <<threshold, partialMetrics, usage, metricsQueue, usageQueue,
                   partialMetricsUsageQueue, labelsQueue, metricsMutex,
                   partialMetricsUsageMutex, pw, dm, sent, hist>>
    /\ UNCHANGED <<rd, call, fl, col, uw, lw>>

\* matchValidMetric for the new name: Lock, loop, and the deferred Unlock of
\* partialMetricsUsageMutex at its return.
MwMatchValid ==
    /\ mw.at = "matchValid"
    /\ partialMetricsUsageMutex = "free"
    /\ partialMetrics' = matchValidMetric(partialMetrics, mw.cur)
    /\ mw' = [mw EXCEPT !.at = "attach"]
    /\ UNCHANGED <<metrics, metricLastTimeSeen, usage, threshold, metricsQueue,
                   usageQueue, partialMetricsUsageQueue, labelsQueue,
                   metricsMutex, partialMetricsUsageMutex, pw, dm, sent, hist>>
    /\ UNCHANGED <<rd, call, fl, col, uw, lw>>

\* After matchValidMetric has returned: the buffered usage is moved to the
\* new name and its counter is set to 0.
MwAttach ==
    /\ mw.at = "attach"
    /\ metrics' = AttachPendingUsage(metrics, usage, mw.cur)
    /\ usage' = DropPendingUsage(usage, mw.cur)
    /\ metricLastTimeSeen' = ResetCounter(metricLastTimeSeen, mw.cur)
    /\ mw' = [mw EXCEPT !.at = MwAfterName(mw.batch, mw.i), !.i = @ + 1,
                        !.cur = NoName]
    /\ UNCHANGED <<threshold, partialMetrics, metricsQueue, usageQueue,
                   partialMetricsUsageQueue, labelsQueue, metricsMutex,
                   partialMetricsUsageMutex, pw, dm, sent, hist>>
    /\ UNCHANGED <<rd, call, fl, col, uw, lw>>

\* Eviction: deleteMetric of a name whose counter reached the threshold, up
\* to its Lock of partialMetricsUsageMutex.
MwEvict ==
    /\ mw.at = "evict"
    /\ \E name \in EvictionCandidates(metricLastTimeSeen, threshold) :
          /\ metrics' = DeleteFromMap(metrics, name)
          /\ metricLastTimeSeen' = DeleteFromMap(metricLastTimeSeen, name)
          /\ mw' = [mw EXCEPT !.at = "scrub", !.cur = name]
          /\ hist' = [hist EXCEPT
                        !.absence[name] = 0,
                        !.reported = @ \ {name},
                        !.evictedLinked =
                            IF \E p \in DOMAIN partialMetrics :
                                  name \in partialMetrics[p].matchingMetrics
                            THEN @ \cup {name} ELSE @]
    /\ UNCHANGED <<threshold, partialMetrics, usage, metricsQueue, usageQueue,
                   partialMetricsUsageQueue, labelsQueue, metricsMutex,
                   partialMetricsUsageMutex, pw, dm, sent>>
    /\ UNCHANGED <<rd, call, fl, col, uw, lw>>

\* deleteMetric of the evicted name, under partialMetricsUsageMutex.
MwScrub ==
    /\ mw.at = "scrub"
    /\ partialMetricsUsageMutex = "free"
    /\ partialMetrics' = ScrubMatchingMetrics(partialMetrics, mw.cur)
    /\ mw' = [mw EXCEPT !.at = "evict", !.cur = NoName]
    /\ UNCHANGED <<metrics, metricLastTimeSeen, threshold, usage, metricsQueue,
                   usageQueue, partialMetricsUsageQueue, labelsQueue, metricsMutex,
                   partialMetricsUsageMutex, dm, pw, sent, hist>>
    /\ UNCHANGED <<rd, call, fl, col, uw, lw>>

\* No counter is left at the threshold: metricsMutex is unlocked.
MwRelease ==
    /\ mw.at = "evict"
    /\ EvictionCandidates(metricLastTimeSeen, threshold) = {}
    /\ metricsMutex' = "free"
    /\ mw' = MwIdle
    /\ UNCHANGED <<metrics, metricLastTimeSeen, threshold, partialMetrics, usage,
                   metricsQueue, usageQueue, partialMetricsUsageQueue, labelsQueue,
                   partialMetricsUsageMutex, pw, dm, sent, hist>>
    /\ UNCHANGED <<rd, call, fl, col, uw, lw>>

(***************************************************************************)
(* watchPartialMetricsUsageQueue.                                          *)
(***************************************************************************)
\* A batch is received from the channel; the goroutine goes on to Lock.
PwReceive ==
    /\ pw.at = "idle"
    /\ partialMetricsUsageQueue # <<>>
    /\ partialMetricsUsageQueue' = Receive(partialMetricsUsageQueue).rest
    /\ pw' = [PwIdle EXCEPT !.at = "lock",
                            !.data = Receive(partialMetricsUsageQueue).value]
    /\ UNCHANGED <<metrics, metricLastTimeSeen, threshold, partialMetrics, usage,
                   metricsQueue, usageQueue, labelsQueue, metricsMutex,
                   partialMetricsUsageMutex, mw, dm, sent, hist>>
    /\ UNCHANGED <<rd, call, fl, col, uw, lw>>

\* partialMetricsUsageMutex is locked; the loop over the batch starts.
PwLock ==
    /\ pw.at = "lock"
    /\ partialMetricsUsageMutex = "free"
    /\ partialMetricsUsageMutex' = "pw"
    /\ pw' = [pw EXCEPT !.at = "loop", !.todo = DOMAIN pw.data]
    /\ UNCHANGED <<metrics, metricLastTimeSeen, threshold, partialMetrics, usage,
                   metricsQueue, usageQueue, partialMetricsUsageQueue, labelsQueue,
                   metricsMutex, mw, dm, sent, hist>>
    /\ UNCHANGED <<rd, call, fl, col, uw, lw>>

\* One entry of the batch (the map is ranged over in any order): a known
\* pattern has the usage merged; a new pattern without a usable regexp is
\* stored as it is; a new pattern with a regexp goes on to the scan.
PwEntry ==
    /\ pw.at = "loop"
    /\ \E metricName \in pw.todo :
          LET gen == generateRegexp(Chars(metricName))
          IN IF metricName \in DOMAIN partialMetrics
             THEN /\ partialMetrics' =
                        MergePartialUsage(partialMetrics, metricName,
                                          pw.data[metricName])
                  /\ pw' = [pw EXCEPT !.todo = @ \ {metricName}]
                  /\ hist' = [hist EXCEPT !.resent =
                                  IF RefsIncluded(pw.data[metricName],
                                                  partialMetrics[metricName].usage)
                                  THEN @ \cup {"partial"} ELSE @]
             ELSE IF gen.err \/ gen.re = Null
             THEN /\ partialMetrics' =
                        StorePartial(partialMetrics, metricName,
                                     pw.data[metricName], Null, {})
                  /\ pw' = [pw EXCEPT !.todo = @ \ {metricName}]
                  /\ UNCHANGED hist
             ELSE /\ pw' = [pw EXCEPT !.at = "scan", !.cur = metricName,
                                      !.re = gen.re]
                  /\ UNCHANGED <<partialMetrics, hist>>
    /\ UNCHANGED <<metrics, metricLastTimeSeen, threshold, usage, metricsQueue,
                   usageQueue, partialMetricsUsageQueue, labelsQueue, metricsMutex,
                   partialMetricsUsageMutex, mw, dm, sent>>
    /\ UNCHANGED <<rd, call, fl, col, uw, lw>>

\* matchPartialMetric: metricsMutex is locked, d.metrics scanned, and the
\* mutex unlocked.
PwScan ==
    /\ pw.at = "scan"
    /\ metricsMutex = "free"
    /\ pw' = [pw EXCEPT !.at = "store", !.scan = ScanMetrics(pw.re, metrics)]
    /\ UNCHANGED <<metrics, metricLastTimeSeen, threshold, partialMetrics, usage,
                   metricsQueue, usageQueue, partialMetricsUsageQueue, labelsQueue,
                   metricsMutex, partialMetricsUsageMutex, mw, dm, sent, hist>>
    /\ UNCHANGED <<rd, call, fl, col, uw, lw>>

\* The new pattern is stored with what the scan returned.
PwStore ==
    /\ pw.at = "store"
    /\ partialMetrics' = StorePartial(partialMetrics, pw.cur, pw.data[pw.cur],
                                      pw.re, pw.scan)
    /\ pw' = [pw EXCEPT !.at = "loop", !.todo = @ \ {pw.cur}, !.cur = NoName,
                        !.re = Null, !.scan = {}]
    /\ hist' = [hist EXCEPT !.storedUnmatched =
                    IF pw.scan = {} THEN @ \cup {pw.cur} ELSE @]
    /\ UNCHANGED <<metrics, metricLastTimeSeen, threshold, usage, metricsQueue,
                   usageQueue, partialMetricsUsageQueue, labelsQueue, metricsMutex,
                   partialMetricsUsageMutex, mw, dm, sent>>
    /\ UNCHANGED <<rd, call, fl, col, uw, lw>>

\* The batch is done: partialMetricsUsageMutex is unlocked.
PwRelease ==
    /\ pw.at = "loop"
    /\ pw.todo = {}
    /\ partialMetricsUsageMutex' = "free"
    /\ pw' = PwIdle
    /\ UNCHANGED <<metrics, metricLastTimeSeen, threshold, partialMetrics, usage,
                   metricsQueue, usageQueue, partialMetricsUsageQueue, labelsQueue,
                   metricsMutex, mw, dm, sent, hist>>
    /\ UNCHANGED <<rd, call, fl, col, uw, lw>>

(***************************************************************************)
(* watchUsageQueue and watchLabelsQueue: a batch is received, then applied  *)
(* under metricsMutex, which they lock and unlock without blocking in      *)
(* between.                                                                *)
(***************************************************************************)
\* A batch is received from the channel; the goroutine goes on to Lock.
UsageReceive ==
    /\ uw.at = "idle"
    /\ usageQueue # <<>>
    /\ usageQueue' = Receive(usageQueue).rest
    /\ uw' = [at |-> "lock", data |-> Receive(usageQueue).value]
    /\ UNCHANGED <<metrics, metricLastTimeSeen, threshold, partialMetrics, usage,
                   metricsQueue, partialMetricsUsageQueue, labelsQueue,
                   metricsMutex, partialMetricsUsageMutex, mw, pw, dm, sent, hist>>
    /\ UNCHANGED <<rd, call, fl, col, lw>>

\* Lock, the loop over the batch, Unlock.
UsageBatch ==
    /\ uw.at = "lock"
    /\ metricsMutex = "free"
    /\ LET data == uw.data
       IN /\ metrics' = UsageIntoMetrics(metrics, data)
          /\ usage' = UsageIntoBuffer(metrics, usage, data)
          /\ hist' = [hist EXCEPT
                        !.attributed =
                            [n \in Names |->
                                IF n \in DOMAIN data
                                THEN MergeUsage(@[n], data[n]) ELSE @[n]],
                        !.resent = IF UsageHeld(metrics, usage, data)
                                   THEN @ \cup {"usage"} ELSE @]
    /\ uw' = UwIdle
    /\ UNCHANGED <<metricLastTimeSeen, threshold, partialMetrics, metricsQueue,
                   usageQueue, partialMetricsUsageQueue, labelsQueue, metricsMutex,
                   partialMetricsUsageMutex, mw, pw, dm, sent>>
    /\ UNCHANGED <<rd, call, fl, col, lw>>

\* A batch is received from the channel; the goroutine goes on to Lock.
LabelsReceive ==
    /\ lw.at = "idle"
    /\ labelsQueue # <<>>
    /\ labelsQueue' = Receive(labelsQueue).rest
    /\ lw' = [at |-> "lock", data |-> Receive(labelsQueue).value]
    /\ UNCHANGED <<metrics, metricLastTimeSeen, threshold, partialMetrics, usage,
                   metricsQueue, usageQueue, partialMetricsUsageQueue,
                   metricsMutex, partialMetricsUsageMutex, mw, pw, dm, sent, hist>>
    /\ UNCHANGED <<rd, call, fl, col, uw>>

\* Lock, the loop over the batch, Unlock.
LabelsBatch ==
    /\ lw.at = "lock"
    /\ metricsMutex = "free"
    /\ metrics' = LabelsIntoMetrics(metrics, lw.data)
    /\ lw' = LwIdle
    /\ UNCHANGED <<metricLastTimeSeen, threshold, partialMetrics, usage,
                   metricsQueue, usageQueue, partialMetricsUsageQueue, labelsQueue,
                   metricsMutex, partialMetricsUsageMutex, mw, pw, dm, sent, hist>>
    /\ UNCHANGED <<rd, call, fl, col, uw>>

(***************************************************************************)
(* DeleteMetric.                                                           *)
(***************************************************************************)
\* The call locks metricsMutex; an unknown name returns false at once; a
\* known name is deleted from the maps and deleteMetric goes on to lock
\* partialMetricsUsageMutex.
DeleteMetricCall ==
    /\ sent < MaxInputs
    /\ dm.at = "idle"
    /\ metricsMutex = "free"
    /\ sent' = sent + 1
    /\ \E name \in Names :
          IF name \notin DOMAIN metrics
          THEN /\ dm' = [at |-> "idle", cur |-> name, ret |-> "false"]
               /\ UNCHANGED <<metrics, metricLastTimeSeen, metricsMutex, hist>>
          ELSE /\ metrics' = DeleteFromMap(metrics, name)
               /\ metricLastTimeSeen' = DeleteFromMap(metricLastTimeSeen, name)
               /\ metricsMutex' = "dm"
               /\ dm' = [at |-> "scrub", cur |-> name, ret |-> "none"]
               /\ hist' = [hist EXCEPT !.absence[name] = 0,
                                        !.reported = @ \ {name}]
    /\ UNCHANGED <<threshold, partialMetrics, usage, metricsQueue, usageQueue,
                   partialMetricsUsageQueue, labelsQueue,
                   partialMetricsUsageMutex, mw, pw>>
    /\ UNCHANGED <<rd, call, fl, col, uw, lw>>

\* deleteMetric: Lock of partialMetricsUsageMutex, the scrub loop, and the
\* deferred Unlock at its return; metricsMutex is still locked.
DeleteMetricScrub ==
    /\ dm.at = "scrub"
    /\ partialMetricsUsageMutex = "free"
    /\ partialMetrics' = ScrubMatchingMetrics(partialMetrics, dm.cur)
    /\ dm' = [dm EXCEPT !.at = "return"]
    /\ UNCHANGED <<metrics, metricLastTimeSeen, threshold, usage, metricsQueue,
                   usageQueue, partialMetricsUsageQueue, labelsQueue,
                   metricsMutex, partialMetricsUsageMutex, mw, pw, sent, hist>>
    /\ UNCHANGED <<rd, call, fl, col, uw, lw>>

\* DeleteMetric returns true: the deferred Unlock of metricsMutex.
DeleteMetricReturn ==
    /\ dm.at = "return"
    /\ metricsMutex' = "free"
    /\ dm' = [at |-> "idle", cur |-> dm.cur, ret |-> "true"]
    /\ UNCHANGED <<metrics, metricLastTimeSeen, threshold, partialMetrics, usage,
                   metricsQueue, usageQueue, partialMetricsUsageQueue,
                   labelsQueue, partialMetricsUsageMutex, mw, pw, sent, hist>>
    /\ UNCHANGED <<rd, call, fl, col, uw, lw>>

DmStep == DeleteMetricScrub \/ DeleteMetricReturn

Next ==
    \/ (sent < MaxStoreInputs /\ EnqueueMetricList)
    \/ (sent < MaxStoreInputs /\ EnqueueUsage)
    \/ (sent < MaxStoreInputs /\ EnqueuePartialMetricsUsage)
    \/ (sent < MaxStoreInputs /\ EnqueueLabels)
    \/ MwReceive
    \/ MwLock
    \/ MwName
    \/ MwMatchValid
    \/ MwAttach
    \/ MwEvict
    \/ MwScrub
    \/ MwRelease
    \/ PwReceive
    \/ PwLock
    \/ PwEntry
    \/ PwScan
    \/ PwStore
    \/ PwRelease
    \/ UsageReceive
    \/ UsageBatch
    \/ LabelsReceive
    \/ LabelsBatch
    \/ (sent < MaxStoreInputs /\ DeleteMetricCall)
    \/ DeleteMetricScrub
    \/ DeleteMetricReturn

Spec == Init /\ [][Next]_vars

\* The usage and partial-usage producers with their consumers alone: up to
\* MaxInputs batches, so that a batch of each queue is applied twice.
NextResend ==
    \/ EnqueueUsage
    \/ EnqueuePartialMetricsUsage
    \/ UsageReceive
    \/ UsageBatch
    \/ PwReceive
    \/ PwLock
    \/ PwEntry
    \/ PwScan
    \/ PwStore
    \/ PwRelease

SpecResend == Init /\ [][NextResend]_vars

\* The steps of each goroutine.
MwStep ==
    MwReceive \/ MwLock \/ MwName \/ MwMatchValid \/ MwAttach \/ MwEvict
        \/ MwScrub \/ MwRelease

PwStep == PwReceive \/ PwLock \/ PwEntry \/ PwScan \/ PwStore \/ PwRelease

UwStep == UsageReceive \/ UsageBatch

LwStep == LabelsReceive \/ LabelsBatch

\* The goroutines are scheduled fairly: a goroutine that can take a step and
\* stays able to take one eventually takes it.
Fairness ==
    /\ WF_vars(MwStep)
    /\ WF_vars(PwStep)
    /\ WF_vars(UwStep)
    /\ WF_vars(LwStep)
    /\ WF_vars(DmStep)

\* The store with at most MaxLiveInputs batches sent in all, every consumer
\* running, scheduled fairly.
NextLive ==
    \/ (sent < MaxLiveInputs /\ EnqueueMetricList)
    \/ (sent < MaxLiveInputs /\ EnqueueUsage)
    \/ (sent < MaxLiveInputs /\ EnqueuePartialMetricsUsage)
    \/ (sent < MaxLiveInputs /\ EnqueueLabels)
    \/ (sent < MaxLiveInputs /\ DeleteMetricCall)
    \/ MwStep
    \/ PwStep
    \/ UsageReceive
    \/ UsageBatch
    \/ LabelsReceive
    \/ LabelsBatch
    \/ DeleteMetricScrub
    \/ DeleteMetricReturn

SpecFair == Init /\ [][NextLive]_vars /\ Fairness

(***************************************************************************)
(* The store fed by metric-list and usage batches only (the end-to-end     *)
(* scenario: no labels, no partial usage, no DeleteMetric call).           *)
(***************************************************************************)
NextE2E ==
    \/ EnqueueMetricList
    \/ EnqueueUsage
    \/ MwReceive
    \/ MwLock
    \/ MwName
    \/ MwMatchValid
    \/ MwAttach
    \/ MwEvict
    \/ MwScrub
    \/ MwRelease
    \/ UsageReceive
    \/ UsageBatch

SpecE2E == Init /\ [][NextE2E]_vars

(***************************************************************************)
(* flush: at every tick of its ticker writeMetricsInJSONFile locks          *)
(* metricsMutex, marshals d.metrics, writes the file and, returning,        *)
(* unlocks the mutex (defer).                                               *)
(***************************************************************************)
\* The names in the order encoding/json writes map keys (sorted).
SortedNames == <<"foo_bar", "up">>

\* json.Marshal(d.metrics): the members of the JSON object, key by key.
RECURSIVE MarshalFrom(_, _)
MarshalFrom(ms, i) ==
    IF i > Len(SortedNames) THEN <<>>
    ELSE (IF SortedNames[i] \in DOMAIN ms
          THEN <<[key |-> SortedNames[i], value |-> ms[SortedNames[i]]]>>
          ELSE <<>>) \o MarshalFrom(ms, i + 1)

Marshal(ms) == MarshalFrom(ms, 1)

\* d.metricsMutex.Lock() and json.Marshal(d.metrics).
FlushMarshal ==
    /\ fl.at = "idle"
    /\ metricsMutex = "free"
    /\ metricsMutex' = "fl"
    /\ fl' = [fl EXCEPT !.at = "write", !.data = Marshal(metrics)]
    /\ UNCHANGED <<metrics, metricLastTimeSeen, threshold, partialMetrics, usage,
                   metricsQueue, usageQueue, partialMetricsUsageQueue, labelsQueue,
                   partialMetricsUsageMutex, mw, pw, dm, sent, hist, rd, call, col,
                   uw, lw>>

\* os.WriteFile(d.path, data, 0644)
FlushWriteFile ==
    /\ fl.at = "write"
    /\ fl' = [fl EXCEPT !.at = "return", !.written = TRUE, !.file = fl.data]
    /\ UNCHANGED <<metrics, metricLastTimeSeen, threshold, partialMetrics, usage,
                   metricsQueue, usageQueue, partialMetricsUsageQueue, labelsQueue,
                   metricsMutex, partialMetricsUsageMutex, mw, pw, dm, sent, hist,
                   rd, call, col, uw, lw>>

\* writeMetricsInJSONFile returns: the deferred d.metricsMutex.Unlock().
FlushUnlock ==
    /\ fl.at = "return"
    /\ metricsMutex' = "free"
    /\ fl' = [fl EXCEPT !.at = "idle", !.data = <<>>]
    /\ UNCHANGED <<metrics, metricLastTimeSeen, threshold, partialMetrics, usage,
                   metricsQueue, usageQueue, partialMetricsUsageQueue, labelsQueue,
                   partialMetricsUsageMutex, mw, pw, dm, sent, hist, rd, call, col,
                   uw, lw>>

\* The store with its consumers and the flush goroutine (cfg.InMemory false).
NextFlush ==
    \/ (sent < MaxFlushInputs /\ EnqueueMetricList)
    \/ (sent < MaxFlushInputs /\ EnqueueUsage)
    \/ (sent < MaxFlushInputs /\ EnqueuePartialMetricsUsage)
    \/ (sent < MaxFlushInputs /\ EnqueueLabels)
    \/ MwStep
    \/ PwStep
    \/ UsageReceive
    \/ UsageBatch
    \/ LabelsReceive
    \/ LabelsBatch
    \/ FlushMarshal
    \/ FlushWriteFile
    \/ FlushUnlock

SpecFlush == Init /\ [][NextFlush]_vars

(***************************************************************************)
(* The metric collector: Execute runs once per period.                     *)
(***************************************************************************)
\* What client.LabelValues may return: an error, or the values of __name__.
LabelValuesResults ==
    {[err |-> TRUE, values |-> <<>>]}
        \cup {[err |-> FALSE, values |-> v] : v \in {<<>>, <<"up">>, <<"foo_bar">>}}

\* Execute: result, the values appended one by one as strings.
RECURSIVE ResultFrom(_, _)
ResultFrom(labelValues, i) ==
    IF i > Len(labelValues) THEN <<>>
    ELSE <<labelValues[i]>> \o ResultFrom(labelValues, i + 1)

\* How a cycle ended, as the collector's log shows it.
CycleOutcome(r) ==
    IF r.err THEN "failed"
    ELSE IF Len(ResultFrom(r.values, 1)) = 0 THEN "empty" ELSE "collected"

\* Mutant: every successful query is enqueued.
ShouldEnqueueOnSuccess(r) == ~r.err

\* Execute: the query succeeded (no early return) and len(result) > 0.
ShouldEnqueue(r) == ~r.err /\ Len(ResultFrom(r.values, 1)) > 0

\* One cycle of the metric collector; the send blocks while the channel is
\* full.
Execute ==
    /\ \E r \in LabelValuesResults :
          /\ IF ShouldEnqueue(r)
             THEN /\ Len(metricsQueue) < MaxQueued
                  /\ metricsQueue' = Append(metricsQueue, ResultFrom(r.values, 1))
             ELSE UNCHANGED metricsQueue
          /\ col' = [last |-> CycleOutcome(r), cycle |-> 1 - col.cycle]
    /\ UNCHANGED <<metrics, metricLastTimeSeen, threshold, partialMetrics, usage,
                   usageQueue, partialMetricsUsageQueue, labelsQueue, metricsMutex,
                   partialMetricsUsageMutex, mw, pw, dm, sent, hist>>
    /\ UNCHANGED <<rd, call, fl, uw, lw>>

\* The store fed by the metric collector, with usage and labels batches
\* beside it.
NextCollector ==
    \/ Execute
    \/ (sent < MaxCollectorInputs /\ EnqueueUsage)
    \/ (sent < MaxCollectorInputs /\ EnqueueLabels)
    \/ MwStep
    \/ UsageReceive
    \/ UsageBatch
    \/ LabelsReceive
    \/ LabelsBatch

SpecCollector == Init /\ [][NextCollector]_vars

\* The thresholds of the long runs: cfg.Threshold is a uint8, 255 its
\* largest value.
LongRunThresholds == {1, MaxThreshold, Uint8 - 1}

InitLongRun ==
    /\ InitMaps
    /\ threshold \in LongRunThresholds
    /\ rd = RdIdle
    /\ call = NoCall

\* The store fed by the metric collector alone, for as many cycles as it
\* takes a counter to reach the threshold.
NextLongRun == Execute \/ MwStep

SpecLongRun == InitLongRun /\ [][NextLongRun]_vars

\* The store with its consumers, fed partial-usage batches with unusable
\* patterns.
NextPartial ==
    \/ (sent < MaxPartialInputs /\ EnqueueMetricList)
    \/ (sent < MaxPartialInputs /\ EnqueueUsage)
    \/ (sent < MaxPartialInputs /\ EnqueueVariedPartial)
    \/ (sent < MaxPartialInputs /\ EnqueueLabels)
    \/ (sent < MaxPartialInputs /\ DeleteMetricCall)
    \/ MwStep
    \/ PwStep
    \/ UsageReceive
    \/ UsageBatch
    \/ LabelsReceive
    \/ LabelsBatch
    \/ DeleteMetricScrub
    \/ DeleteMetricReturn

SpecPartial == Init /\ [][NextPartial]_vars

\* The store with its consumers, fed labels batches of different label names.
NextLabels ==
    \/ (sent < MaxLabelInputs /\ EnqueueMetricList)
    \/ (sent < MaxLabelInputs /\ EnqueueUsage)
    \/ (sent < MaxLabelInputs /\ EnqueuePartialMetricsUsage)
    \/ (sent < MaxLabelInputs /\ EnqueueVariedLabels)
    \/ (sent < MaxLabelInputs /\ DeleteMetricCall)
    \/ MwStep
    \/ PwStep
    \/ UsageReceive
    \/ UsageBatch
    \/ LabelsReceive
    \/ LabelsBatch
    \/ DeleteMetricScrub
    \/ DeleteMetricReturn

SpecLabels == Init /\ [][NextLabels]_vars

(***************************************************************************)
(* The HTTP endpoint of the metric source.                                 *)
(***************************************************************************)
\* RegisterRoute: the handler registered for a POST path.
RegisterRoute(path) ==
    CASE path = "/api/v1/metrics" -> "PushMetricsUsage"
      [] path = "/api/v1/partial_metrics" -> "PushMetricsUsage"
      [] OTHER -> "NotFound"

\* The handlers: the bound body is enqueued (the send blocks on a full queue).
HandlePost(handler, data) ==
    CASE handler = "PushMetricsUsage" ->
            /\ Len(usageQueue) < UsageQueueCap
            /\ usageQueue' = Append(usageQueue, data)
            /\ UNCHANGED partialMetricsUsageQueue
      [] handler = "PushPartialMetricsUsage" ->
            /\ Len(partialMetricsUsageQueue) < PartialQueueCap
            /\ partialMetricsUsageQueue' = Append(partialMetricsUsageQueue, data)
            /\ UNCHANGED usageQueue
      [] OTHER -> UNCHANGED <<usageQueue, partialMetricsUsageQueue>>

\* POST /api/v1/metrics with a body map<metric name, usage>.
PostMetrics ==
    /\ sent < MaxInputs
    /\ \E data \in UsageBatches : HandlePost(RegisterRoute("/api/v1/metrics"), data)
    /\ sent' = sent + 1
    /\ UNCHANGED <<metrics, metricLastTimeSeen, threshold, partialMetrics, usage,
                   metricsQueue, labelsQueue, metricsMutex,
                   partialMetricsUsageMutex, mw, pw, dm, hist>>
    /\ UNCHANGED <<rd, call, fl, col, uw, lw>>

\* POST /api/v1/partial_metrics with a body map<pattern, usage>.
PostPartialMetrics ==
    /\ sent < MaxInputs
    /\ \E data \in PartialBatches :
          /\ HandlePost(RegisterRoute("/api/v1/partial_metrics"), data)
          /\ hist' = [hist EXCEPT !.postedPartial = @ \cup DOMAIN data]
    /\ sent' = sent + 1
    /\ UNCHANGED <<metrics, metricLastTimeSeen, threshold, partialMetrics, usage,
                   metricsQueue, labelsQueue, metricsMutex,
                   partialMetricsUsageMutex, mw, pw, dm>>
    /\ UNCHANGED <<rd, call, fl, col, uw, lw>>

\* The store fed by the two POST routes and by a collector that enqueues
\* partial usage directly.
NextAPI ==
    \/ PostMetrics
    \/ PostPartialMetrics
    \/ EnqueuePartialMetricsUsage
    \/ PwReceive
    \/ PwLock
    \/ PwEntry
    \/ PwScan
    \/ PwStore
    \/ PwRelease
    \/ UsageReceive
    \/ UsageBatch

SpecAPI == Init /\ [][NextAPI]_vars

(***************************************************************************)
(* The Read API: the handlers GET /api/v1/metrics (ListMetrics),           *)
(* GET /api/v1/metrics/:id (GetMetric) and GET /api/v1/pending_usages.     *)
(***************************************************************************)
\* What a handler holds after a List call: value, the map it reads, and
\* alias, the keys whose entry is the very object the store's map points to
\* (a write to such an entry is a write to the store's metric).
\*
\* deep.Copy(m): an error, or a new map whose entries are new objects with
\* the values of the entries of m, so that none is an object of the store.
DeepCopy(m) ==
    {[err |-> FALSE, value |-> m, alias |-> {}],
     [err |-> TRUE, value |-> EmptyMap, alias |-> {}]}

\* Mutant: the store's map is returned as it is, the way ListPendingUsage
\* returns d.usage.
ListMetricsLive(ms) == {[err |-> FALSE, value |-> ms, alias |-> DOMAIN ms]}

\* db.ListMetrics: return deep.Copy(d.metrics)
ListMetricsReturn(ms) == DeepCopy(ms)

\* db.ListPartialMetrics: return deep.Copy(d.partialMetrics)
ListPartialMetricsReturn(ps) == DeepCopy(ps)

\* request.filter, the merge_partial_metrics loop: the usage of every partial
\* metric is merged into the listed metrics it matches.
MergePartialIntoList(validMetricList, partialMetricList) ==
    [n \in DOMAIN validMetricList |->
        [validMetricList[n] EXCEPT !.usage =
            LET ps == {p \in DOMAIN partialMetricList :
                          n \in partialMetricList[p].matchingMetrics}
                merged == [dashboards |->
                              UNION {Refs(partialMetricList[p].usage).dashboards : p \in ps},
                           alertRules |->
                              UNION {Refs(partialMetricList[p].usage).alertRules : p \in ps},
                           recordingRules |->
                              UNION {Refs(partialMetricList[p].usage).recordingRules : p \in ps}]
            IN IF \A p \in ps : partialMetricList[p].usage = Null THEN @
               ELSE MergeUsage(@, merged)]]

\* fuzzy.Match(source, target): the characters of source occur in target, in
\* order.
RECURSIVE FuzzyMatchFrom(_, _, _, _)
FuzzyMatchFrom(source, i, target, j) ==
    IF i > Len(source) THEN TRUE
    ELSE IF j > Len(target) THEN FALSE
    ELSE IF source[i] = target[j]
         THEN FuzzyMatchFrom(source, i + 1, target, j + 1)
         ELSE FuzzyMatchFrom(source, i, target, j + 1)

FuzzyMatch(source, target) == FuzzyMatchFrom(source, 1, target, 1)

\* regexp.Compile(filter) and re.MatchString(metricName), for the filters
\* the model sends (literal characters, '|', '.+', an unclosed parenthesis):
\* false when the filter does not compile; otherwise some alternative of the
\* filter matches somewhere in the name (the filter is not anchored).
RegexMatch(flt, metricName) ==
    /\ ~CompileFails(flt)
    /\ LET alts == SplitAlternatives(flt, 1, <<>>)
       IN \E pos \in 0..Len(metricName) : \E a \in DOMAIN alts :
             AltMatchEnd(alts[a], 1, metricName, pos, FALSE) # -1

\* isMetricMatching (a mode that is not given means fuzzy)
isMetricMatching(metricName, matchMode, flt) ==
    CASE matchMode = "exact" -> metricName = flt
      [] matchMode = "regex" -> RegexMatch(Chars(flt), Chars(metricName))
      [] OTHER -> FuzzyMatch(Chars(flt), Chars(metricName))

\* The requests GET /api/v1/metrics is sent with: merge_partial_metrics, used,
\* metric_name and mode.  The filters are none, an exact name, a fuzzy filter,
\* a regexp with an empty alternative and a regexp that does not compile.
Requests ==
    {[merge |-> FALSE, used |-> "unset",
      name |-> [metricName |-> "", mode |-> ""]],
     [merge |-> TRUE,  used |-> "unset",
      name |-> [metricName |-> "", mode |-> ""]],
     [merge |-> TRUE,  used |-> "true",
      name |-> [metricName |-> "", mode |-> ""]],
     [merge |-> TRUE,  used |-> "true",
      name |-> [metricName |-> "fb", mode |-> ""]],
     [merge |-> TRUE,  used |-> "false",
      name |-> [metricName |-> "up", mode |-> "exact"]],
     [merge |-> FALSE, used |-> "true",
      name |-> [metricName |-> "up|", mode |-> "regex"]],
     [merge |-> FALSE, used |-> "unset",
      name |-> [metricName |-> "foo_(", mode |-> "regex"]]}

\* Mutant: the used filter looks at the usage the metric had before the merge.
filterUsedBeforeMerge(req, validMetricList, partialMetricList) ==
    LET list == IF req.merge
                THEN MergePartialIntoList(validMetricList, partialMetricList)
                ELSE validMetricList
    IN IF req.name.metricName = "" /\ req.used = "unset" THEN list
       ELSE [n \in {k \in DOMAIN list :
                       /\ \/ req.name.metricName = ""
                          \/ isMetricMatching(k, req.name.mode, req.name.metricName)
                       /\ \/ req.used = "unset"
                          \/ (req.used = "true") = (validMetricList[k].usage # Null)}
                |-> list[n]]

\* request.filter (used is "unset", "true" or "false")
filter(req, validMetricList, partialMetricList) ==
    LET list == IF req.merge
                THEN MergePartialIntoList(validMetricList, partialMetricList)
                ELSE validMetricList
    IN IF req.name.metricName = "" /\ req.used = "unset" THEN list
       ELSE [n \in {k \in DOMAIN list :
                       /\ \/ req.name.metricName = ""
                          \/ isMetricMatching(k, req.name.mode, req.name.metricName)
                       /\ \/ req.used = "unset"
                          \/ (req.used = "true") = (list[k].usage # Null)}
                |-> list[n]]

\* request.filter assigns m.Usage on the entries of validMetricList: what
\* the store's map is after these writes.  An entry that is an object of the
\* store takes the usage written; the other entries of the store are not
\* touched.
WrittenThrough(ms, list, written) ==
    [n \in DOMAIN ms |->
        IF n \in list.alias /\ n \in DOMAIN written
        THEN [ms[n] EXCEPT !.usage = written[n].usage]
        ELSE ms[n]]

\* The nil map a handler holds when ListPartialMetrics was not called.
NoList == [err |-> FALSE, value |-> EmptyMap, alias |-> {}]

\* ListMetrics handler: the request is bound; with merge_partial_metrics the
\* partial metrics are copied under partialMetricsUsageMutex, and an error
\* of the copy ends the request with status 500.
RdBindList ==
    /\ rd.at = "idle"
    /\ \E req \in Requests :
          /\ req.merge => partialMetricsUsageMutex = "free"
          /\ \E partial \in IF req.merge
                             THEN ListPartialMetricsReturn(partialMetrics)
                             ELSE {NoList} :
                rd' = IF partial.err
                      THEN [at |-> "done", req |-> req, status |-> 500]
                      ELSE [at |-> "listMetrics", req |-> req,
                            partial |-> partial]
    /\ UNCHANGED <<metrics, metricLastTimeSeen, threshold, partialMetrics, usage,
                   metricsQueue, usageQueue, partialMetricsUsageQueue, labelsQueue,
                   metricsMutex, partialMetricsUsageMutex, mw, pw, dm, sent, hist,
                   call, fl, col, uw, lw>>

\* Mutant: ListMetrics copies the map without taking the mutex.
ListMetricsNoLock(mutex) == TRUE

\* db.ListMetrics: d.metricsMutex.Lock() returns once the mutex is free.
ListMetricsLock(mutex) == mutex = "free"

\* ListMetrics handler: the concrete metrics are copied under metricsMutex;
\* an error of the copy ends the request with status 500.
RdCopyList ==
    /\ rd.at = "listMetrics"
    /\ ListMetricsLock(metricsMutex)
    /\ \E list \in ListMetricsReturn(metrics) :
          rd' = IF list.err
                THEN [at |-> "done", req |-> rd.req, status |-> 500]
                ELSE [at |-> "filter", req |-> rd.req, partial |-> rd.partial,
                      list |-> list]
    /\ UNCHANGED <<metrics, metricLastTimeSeen, threshold, partialMetrics, usage,
                   metricsQueue, usageQueue, partialMetricsUsageQueue, labelsQueue,
                   metricsMutex, partialMetricsUsageMutex, mw, pw, dm, sent, hist,
                   call, fl, col, uw, lw>>

\* ListMetrics handler: filter runs on the copies, without any lock, and the
\* response is written.
RdFilter ==
    /\ rd.at = "filter"
    /\ rd' = [at |-> "done", req |-> rd.req,
              response |-> filter(rd.req, rd.list.value, rd.partial.value)]
    /\ metrics' = WrittenThrough(metrics, rd.list,
                      IF rd.req.merge
                      THEN MergePartialIntoList(rd.list.value, rd.partial.value)
                      ELSE EmptyMap)
    /\ UNCHANGED <<metricLastTimeSeen, threshold, partialMetrics, usage,
                   metricsQueue, usageQueue, partialMetricsUsageQueue, labelsQueue,
                   metricsMutex, partialMetricsUsageMutex, mw, pw, dm, sent, hist,
                   call, fl, col, uw, lw>>

\* GetMetric handler: d.metrics[name] is returned under metricsMutex, the
\* pointer is then serialized by ctx.JSON after the Unlock (404 when nil).
RdGetMetric ==
    /\ rd.at = "idle"
    /\ metricsMutex = "free"
    /\ \E name \in Names :
          rd' = IF name \in DOMAIN metrics
                THEN [at |-> "serialize", live |-> "metric", name |-> name]
                ELSE [at |-> "done", notFound |-> name]
    /\ UNCHANGED <<metrics, metricLastTimeSeen, threshold, partialMetrics, usage,
                   metricsQueue, usageQueue, partialMetricsUsageQueue, labelsQueue,
                   metricsMutex, partialMetricsUsageMutex, mw, pw, dm, sent, hist,
                   call, fl, col, uw, lw>>

\* ListPendingUsages handler: d.usage itself is returned under metricsMutex
\* and serialized by ctx.JSON after the Unlock.
RdListPendingUsages ==
    /\ rd.at = "idle"
    /\ metricsMutex = "free"
    /\ rd' = [at |-> "serialize", live |-> "pending", name |-> NoName]
    /\ UNCHANGED <<metrics, metricLastTimeSeen, threshold, partialMetrics, usage,
                   metricsQueue, usageQueue, partialMetricsUsageQueue, labelsQueue,
                   metricsMutex, partialMetricsUsageMutex, mw, pw, dm, sent, hist,
                   call, fl, col, uw, lw>>

\* ctx.JSON has read the live value; the handler returns.
RdSerialized ==
    /\ rd.at = "serialize"
    /\ rd' = [at |-> "done", served |-> rd.live]
    /\ UNCHANGED <<metrics, metricLastTimeSeen, threshold, partialMetrics, usage,
                   metricsQueue, usageQueue, partialMetricsUsageQueue, labelsQueue,
                   metricsMutex, partialMetricsUsageMutex, mw, pw, dm, sent, hist,
                   call, fl, col, uw, lw>>

\* The store with its consumers and one request of the Read API.
NextRead ==
    \/ (sent < MaxReadInputs /\ EnqueueMetricList)
    \/ (sent < MaxReadInputs /\ EnqueueUsage)
    \/ (sent < MaxReadInputs /\ EnqueuePartialMetricsUsage)
    \/ (sent < MaxReadInputs /\ EnqueueLabels)
    \/ MwStep
    \/ PwStep
    \/ UsageReceive
    \/ UsageBatch
    \/ LabelsReceive
    \/ LabelsBatch
    \/ RdBindList
    \/ RdCopyList
    \/ RdFilter
    \/ RdGetMetric
    \/ RdListPendingUsages
    \/ RdSerialized

SpecRead == Init /\ [][NextRead]_vars

(***************************************************************************)
(* MergeUsage on its own: every triple of usages, merged in every order.   *)
(***************************************************************************)
\* The *MetricUsage values: nil, or three facets (a nil set is an empty one).
UsageDomain ==
    {Null} \cup [dashboards : SUBSET {"d1", "d2"},
                 alertRules : SUBSET {"r1"},
                 recordingRules : SUBSET {"r2"}]

InitMerge ==
    /\ InitStore
    /\ rd = RdIdle
    /\ call \in [at : {"called"}, a : UsageDomain, b : UsageDomain, c : UsageDomain]

\* MergeUsage is called on the arguments, alone and nested.
MergeUsageCalls ==
    /\ call.at = "called"
    /\ call' = [at   |-> "returned",
                a    |-> call.a,
                b    |-> call.b,
                c    |-> call.c,
                aa   |-> MergeUsage(call.a, call.a),
                ab   |-> MergeUsage(call.a, call.b),
                ba   |-> MergeUsage(call.b, call.a),
                ab_c |-> MergeUsage(MergeUsage(call.a, call.b), call.c),
                a_bc |-> MergeUsage(call.a, MergeUsage(call.b, call.c)),
                ca_b |-> MergeUsage(MergeUsage(call.c, call.a), call.b),
                cb_a |-> MergeUsage(MergeUsage(call.c, call.b), call.a)]
    /\ UNCHANGED <<metrics, metricLastTimeSeen, threshold, partialMetrics, usage,
                   metricsQueue, usageQueue, partialMetricsUsageQueue, labelsQueue,
                   metricsMutex, partialMetricsUsageMutex, mw, pw, dm, sent, hist,
                   rd, fl, col, uw, lw>>

NextMerge == MergeUsageCalls

SpecMerge == InitMerge /\ [][NextMerge]_vars

(***************************************************************************)
(* generateRegexp and isMatching on their own.  A partial metric name is   *)
(* drawn as a sequence of fragments: placeholders, '.+', '.*' and literal   *)
(* characters.                                                             *)
(***************************************************************************)
Placeholder(name) == <<"$", "{">> \o name \o <<"}">>

\* ${a}, .+ and .*
WildFragments == {Placeholder(<<"a">>), <<".", "+">>, <<".", "*">>}

LiteralFragments == {<<"f">>, <<"_">>, <<"|">>, <<"#">>, <<"(">>, <<"é">>}

\* The placeholders of TestGenerateRegexp.
TestPlaceholders ==
    {Placeholder(n) : n \in {<<"f","o","o">>, <<"b","a","r">>, <<"j","o","h","n">>,
                             <<"d","o","e">>, <<"m","e","t","r","i","c">>,
                             <<"c","o","l","l","e","c","t","i","o","n">>}}

IsWild(f) == f \in WildFragments \cup TestPlaceholders

RECURSIVE FragmentLists(_)
FragmentLists(n) ==
    IF n = 0 THEN {<<>>}
    ELSE FragmentLists(n - 1)
         \cup {Append(l, f) : l \in {x \in FragmentLists(n - 1) : Len(x) = n - 1},
                               f \in WildFragments \cup LiteralFragments}

\* The inputs of TestGenerateRegexp and the patterns foo| and foo|bar.
ExampleInputs ==
    { <<Placeholder(<<"m","e","t","r","i","c">>)>>,
      <<Placeholder(<<"f","o","o">>), Placeholder(<<"b","a","r">>),
        Placeholder(<<"j","o","h","n">>), Placeholder(<<"d","o","e">>)>>,
      <<<<"p","r","e","f","i","x","_">>,
        Placeholder(<<"f","o","o">>), Placeholder(<<"b","a","r">>),
        <<":","c","o","l","l","e","c","t","i","o","n","_">>,
        Placeholder(<<"c","o","l","l","e","c","t","i","o","n">>),
        <<"_","s","u","f","f","i","x",":">>,
        Placeholder(<<"j","o","h","n">>), Placeholder(<<"d","o","e">>)>>,
      <<<<"o","t","e","l","c","o","l","_","r","e","c","e","i","v","e","r","_">>,
        <<".", "+">>>>,
      <<<<"f","o","o">>, <<"|">>>>,
      <<<<"f","o","o">>, <<"|">>, <<"b","a","r">>>> }

RegexpInputs == FragmentLists(MaxFragments) \cup ExampleInputs

\* The metric names the patterns are matched against, the empty name
\* included.
MetricInputs ==
    {<<>>, <<"f">>, <<"b">>, <<"f","_","f">>, <<"f","o","o">>, <<"b","a","r">>}

RECURSIVE Flatten(_)
Flatten(frags) ==
    IF frags = <<>> THEN <<>> ELSE Head(frags) \o Flatten(Tail(frags))

InitRegexp ==
    /\ InitStore
    /\ rd = RdIdle
    /\ call \in [at : {"input"}, frags : RegexpInputs]

\* generateRegexp is called on the partial metric name.
GenerateRegexpCall ==
    /\ call.at = "input"
    /\ call' = [at    |-> "generated",
                frags |-> call.frags,
                gen   |-> generateRegexp(Flatten(call.frags))]
    /\ UNCHANGED <<metrics, metricLastTimeSeen, threshold, partialMetrics, usage,
                   metricsQueue, usageQueue, partialMetricsUsageQueue, labelsQueue,
                   metricsMutex, partialMetricsUsageMutex, mw, pw, dm, sent, hist,
                   rd, fl, col, uw, lw>>

\* A usable regexp is tried on a metric name, as matchPartialMetric tries it
\* (scan) and as matchValidMetric tries it (incremental).
IsMatchingCall ==
    /\ call.at = "generated"
    /\ call.gen.re # Null
    /\ ~call.gen.err
    /\ \E metric \in MetricInputs :
          call' = [at          |-> "matched",
                   frags       |-> call.frags,
                   gen         |-> call.gen,
                   metric      |-> metric,
                   scan        |-> ScanTest(call.gen.re, metric),
                   incremental |-> isMatching(call.gen.re, metric),
                   found       |-> FindAllString(call.gen.re, metric)]
    /\ UNCHANGED <<metrics, metricLastTimeSeen, threshold, partialMetrics, usage,
                   metricsQueue, usageQueue, partialMetricsUsageQueue, labelsQueue,
                   metricsMutex, partialMetricsUsageMutex, mw, pw, dm, sent, hist,
                   rd, fl, col, uw, lw>>

NextRegexp == GenerateRegexpCall \/ IsMatchingCall

SpecRegexp == InitRegexp /\ [][NextRegexp]_vars

(***************************************************************************)
(* Properties.                                                             *)
(***************************************************************************)
Tasks == {"mw", "pw", "dm"}

\* The mutex a task is blocked on ("none" when it is not in a Lock call).
WantedMutex(t) ==
    CASE t = "mw" /\ mw.at \in {"matchValid", "scrub"} -> "partial"
      [] t = "mw" /\ mw.at = "lock" -> "metrics"
      [] t = "dm" /\ dm.at = "scrub" -> "partial"
      [] t = "pw" /\ pw.at = "scan" -> "metrics"
      [] t = "pw" /\ pw.at = "lock" -> "partial"
      [] OTHER -> "none"

Holder(mutex) ==
    CASE mutex = "metrics" -> metricsMutex
      [] mutex = "partial" -> partialMetricsUsageMutex
      [] OTHER -> "free"

WaitsFor(t, u) == WantedMutex(t) # "none" /\ Holder(WantedMutex(t)) = u

\* The metric-list consumer deletes name in this step (eviction pass).
EvictedNow(name) == mw.at = "evict" /\ mw'.at = "scrub" /\ mw'.cur = name

\* The metric-list consumer finishes handling name (a name of its batch).
ConfirmedNow(name) ==
    /\ mw.at \in {"loop", "attach"}
    /\ mw'.i = mw.i + 1
    /\ mw.batch[mw.i] = name

\* The usage the store holds for a name: on the metric and in the buffer.
HeldUsage(name) ==
    MergeUsage(IF name \in DOMAIN metrics THEN metrics[name].usage ELSE Null,
               IF name \in DOMAIN usage THEN usage[name] ELSE Null)

\* The partial metric has a regexp and it matches the name (isMatching).
Matches(p, name) ==
    /\ partialMetrics[p].matchingRegexp # Null
    /\ isMatching(partialMetrics[p].matchingRegexp, Chars(name))

\* The names a deleteMetric in progress has deleted and not yet scrubbed.
BeingDeleted ==
    (IF mw.at = "scrub" THEN {mw.cur} ELSE {})
        \cup (IF dm.at = "scrub" THEN {dm.cur} ELSE {})

Drained ==
    /\ metricsQueue = <<>> /\ usageQueue = <<>>
    /\ partialMetricsUsageQueue = <<>> /\ labelsQueue = <<>>
    /\ mw.at = "idle" /\ pw.at = "idle" /\ dm.at = "idle"
    /\ uw.at = "idle" /\ lw.at = "idle"

\* C1: no two tasks each hold one of the two mutexes and wait for the other.
C1_NoLockCycle ==
    ~ \E t, u \in Tasks : t # u /\ WaitsFor(t, u) /\ WaitsFor(u, t)

\* C2: when the metric-list consumer handles a name M of its batch for which
\* the pending buffer has an entry, the buffered usage becomes the usage of
\* the concrete metric M and the buffer loses the entry.
C2_PendingMovedWhenConfirmed ==
    [][\A name \in Names :
          (ConfirmedNow(name) /\ name \in DOMAIN usage)
              => /\ name \in DOMAIN metrics'
                 /\ metrics'[name].usage = usage[name]
                 /\ name \notin DOMAIN usage']_vars

\* C3: no name is a key of the concrete map with non-null usage and a key of
\* the pending buffer at the same time.
C3_UsageInOnePlace ==
    \A name \in DOMAIN metrics \cap DOMAIN usage : metrics[name].usage = Null

\* C4: between batches, no stored metric has been absent from threshold
\* consecutive processed metric-list batches (threshold >= 1).
C4_AbsentMetricsAreEvicted ==
    (mw.at = "idle" /\ threshold >= 1)
        => \A name \in DOMAIN metrics : hist.absence[name] < threshold

\* C5 as stated: the eviction pass never deletes a name that every processed
\* metric-list batch contained, for every threshold.
C5_PresentNeverEvictedAnyThreshold ==
    [][\A name \in Names : EvictedNow(name) => name \notin hist.inAll]_vars

\* C5 amended: the eviction pass never deletes a name that every processed
\* metric-list batch contained, for every threshold >= 1.
C5_PresentNeverEvicted ==
    [][threshold >= 1
          => \A name \in Names : EvictedNow(name) => name \notin hist.inAll]_vars

\* C5 witness: an eviction pass is deleting one name and spares another one,
\* counted and contained in every batch so far.
C5_Witness ==
    /\ threshold >= 1
    /\ mw.at = "scrub"
    /\ \E name \in hist.inAll : name \in DOMAIN metricLastTimeSeen

\* C6: the usage a metric has when the eviction pass deletes it is still held
\* by the store (on the metric or in the pending buffer) after the deletion.
C6_EvictionKeepsUsage ==
    [][\A name \in Names :
          EvictedNow(name)
              => RefsIncluded(metrics[name].usage, HeldUsage(name)')]_vars

\* C7 as stated: with metric-list and usage batches only, once the queues are
\* drained every name that all processed batches (at least one) contained is
\* a concrete metric whose usage holds exactly the references applied for it
\* (null if none were), and the pending buffer has no entry for it.
C7_OrderIndependentAnyThreshold ==
    Drained
        => \A name \in hist.inAll \cap hist.named :
              /\ name \in DOMAIN metrics
              /\ name \notin DOMAIN usage
              /\ Refs(metrics[name].usage) = Refs(hist.attributed[name])
              /\ (hist.attributed[name] = Null => metrics[name].usage = Null)

\* C7 amended: the same, for every threshold >= 1.
C7_OrderIndependent ==
    (threshold >= 1) => C7_OrderIndependentAnyThreshold

\* C7 witness: both orders end here: foo_bar has the dashboard usage, up was
\* created by the same batch and has none.
C7_Witness ==
    /\ threshold >= 1
    /\ Drained
    /\ hist.named = {"up", "foo_bar"}
    /\ hist.inAll = {"up", "foo_bar"}
    /\ metrics["foo_bar"].usage = UsageD1
    /\ metrics["up"].usage = Null

\* C8: at the end of a metric-list batch (threshold >= 1), every partial
\* metric that was stored while no concrete metric matched it, and whose
\* pattern matches a name of the batch, lists that name.
C8_Backfill ==
    [][(mw.at = "evict" /\ mw'.at = "idle" /\ threshold >= 1)
          => \A name \in Range(mw.batch) :
                \A p \in hist.storedUnmatched \cap DOMAIN partialMetrics :
                    Matches(p, name) => name \in partialMetrics[p].matchingMetrics]_vars

\* C9: when the metric-list consumer completes the eviction of a name, no
\* partial metric lists that name.
C9_EvictionScrubs ==
    [][(mw.at = "scrub" /\ mw'.at # "scrub")
          => \A p \in DOMAIN partialMetrics' :
                mw.cur \notin partialMetrics'[p].matchingMetrics]_vars

\* C9 witness: a name that a partial metric listed was evicted, the eviction
\* is complete, and the partial metric whose pattern matches it remains.
C9_Witness ==
    /\ mw.at = "evict"
    /\ \E name \in hist.evictedLinked :
          /\ name \notin DOMAIN metrics
          /\ \E p \in DOMAIN partialMetrics : Matches(p, name)

\* C10 as stated: in every state each partial metric lists only names that
\* are keys of the concrete map.
C10_MatchingWithinMetrics ==
    \A p \in DOMAIN partialMetrics :
        partialMetrics[p].matchingMetrics \subseteq DOMAIN metrics

\* C10 amended: in every state each partial metric lists only names that are
\* keys of the concrete map or that a deleteMetric in progress has deleted
\* from the map and not yet scrubbed.
C10_MatchingWithinMetricsOrDeleting ==
    \A p \in DOMAIN partialMetrics :
        partialMetrics[p].matchingMetrics \subseteq DOMAIN metrics \cup BeingDeleted

\* C10 witness: pattern creation has scanned a name that was deleted from
\* the concrete map before the pattern is stored.
C10_Witness ==
    /\ pw.at = "store"
    /\ ~(pw.scan \subseteq DOMAIN metrics)

\* C11: a key of a body posted to /api/v1/partial_metrics never becomes a key
\* of the pending buffer or of the concrete map, and once the queues are
\* drained it is an entry of the partial-metric map.
C11_PartialRouteFeedsPartialMap ==
    \A p \in hist.postedPartial :
        /\ p \notin DOMAIN usage
        /\ p \notin DOMAIN metrics
        /\ Drained => p \in DOMAIN partialMetrics

\* C12: under fair scheduling every enqueued batch is eventually applied:
\* again and again the four queues are empty and every consumer is back at
\* its receive.
C12_EveryBatchApplied == []<>Drained

\* The dashboard, alert-rule and recording-rule sets the store holds: per
\* concrete metric, per pending entry and per partial metric.
StoreRefs ==
    [concrete |-> [n \in DOMAIN metrics |-> Refs(metrics[n].usage)],
     pending  |-> [n \in DOMAIN usage |-> Refs(usage[n])],
     partial  |-> [p \in DOMAIN partialMetrics |-> Refs(partialMetrics[p].usage)]]

\* watchUsageQueue applies a batch in this step.
UsageApplied == uw.at = "lock" /\ uw'.at = "idle"

\* watchPartialMetricsUsageQueue applies the entry p of its batch to a
\* pattern it already knows, in this step.
KnownPartialApplied(p) ==
    /\ pw.at = "loop" /\ pw'.at = "loop"
    /\ p \in pw.todo /\ p \notin pw'.todo
    /\ p \in DOMAIN partialMetrics

\* C13: applying a usage batch, or an entry of a partial-usage batch, whose
\* references the store already holds under the same keys (the state directly
\* after it was applied once) leaves every set of the concrete map, of the
\* pending buffer and of the partial map as it was.
C13_ResendIdempotent ==
    [][/\ (UsageApplied /\ UsageHeld(metrics, usage, uw.data))
            => StoreRefs' = StoreRefs
       /\ \A p \in Patterns :
            (KnownPartialApplied(p)
                /\ RefsIncluded(pw.data[p], partialMetrics[p].usage))
            => StoreRefs' = StoreRefs]_vars

\* C13 witness: a usage batch and a partial-usage entry were each applied to
\* a store that already held their references, and the store holds usage in
\* the concrete map and in the partial map.
C13_Witness ==
    /\ hist.resent = {"usage", "partial"}
    /\ \E n \in DOMAIN metrics : n \in Names /\ metrics[n].usage # Null
                                 /\ hist.attributed[n] # Null
    /\ partialMetrics # EmptyMap

\* C14: for every usage a, MergeUsage(a, a) has the dashboards, the alert
\* rules and the recording rules of a.
C14_MergeIdempotent ==
    call.at = "returned" => Refs(call.aa) = Refs(call.a)

\* C14 witness: a usage with elements in every facet was merged with itself.
C14_Witness ==
    /\ call.at = "returned"
    /\ call.a # Null
    /\ call.a.dashboards = {"d1", "d2"}
    /\ call.a.alertRules = {"r1"}
    /\ call.a.recordingRules = {"r2"}
    /\ call.aa = call.a

\* C15: for all usages a, b, c (nil included) the merge gives the same three
\* facet sets whatever the order of the arguments and the grouping.
C15_MergeCommutativeAssociative ==
    call.at = "returned"
        => /\ Refs(call.ab) = Refs(call.ba)
           /\ Refs(call.ab_c) = Refs(call.a_bc)
           /\ Refs(call.ab_c) = Refs(call.ca_b)
           /\ Refs(call.ab_c) = Refs(call.cb_a)

\* C15 witness: three different usages, one of them nil, were merged in
\* every order and the result has elements of the two others.
C15_Witness ==
    /\ call.at = "returned"
    /\ call.a # Null /\ call.b = Null /\ call.c # Null
    /\ call.a.dashboards = {"d1"} /\ call.c.dashboards = {"d2"}
    /\ call.ab_c # Null
    /\ call.ab_c.dashboards = {"d1", "d2"}

\* C16: MergeUsage(a, b) is b when a is nil and a when b is nil; otherwise
\* each facet of the result is the union of the facets of a and b.  It always
\* returns a usage (there is no error outcome).
C16_MergeResult ==
    call.at = "returned"
        => /\ call.a = Null => call.ab = call.b
           /\ call.b = Null => call.ab = call.a
           /\ (call.a # Null /\ call.b # Null)
                 => /\ call.ab # Null
                    /\ call.ab.dashboards = call.a.dashboards \cup call.b.dashboards
                    /\ call.ab.alertRules = call.a.alertRules \cup call.b.alertRules
                    /\ call.ab.recordingRules
                          = call.a.recordingRules \cup call.b.recordingRules
           /\ call.ab \in UsageDomain

\* C16 witness: a nil a was merged with a non-nil b and returned b.
C16_Witness ==
    /\ call.at = "returned"
    /\ call.a = Null
    /\ call.b # Null
    /\ call.b.dashboards = {"d1"}
    /\ call.ab = call.b

\* The ListMetrics handler takes a step (copy of the partial metrics, copy of
\* the concrete metrics, filter with its merge, or the answer to a failed
\* copy).
ListMetricsStep ==
    /\ rd.at \in {"idle", "listMetrics", "filter"}
    /\ rd'.at \in {"listMetrics", "filter", "done"}
    /\ rd' # rd
    /\ rd'.at = "done" => "req" \in DOMAIN rd'

\* C17: no step of the ListMetrics handler, the merge of the partial metrics'
\* usage into the listed metrics included, changes the concrete-metric map,
\* the partial-metric map or the pending buffer.
C17_ListsAreIsolated ==
    [][ListMetricsStep => UNCHANGED <<metrics, partialMetrics, usage>>]_vars

\* C17 witness: the response lists a metric with usage that the merge took
\* from a partial metric, while the store's metric has none.
C17_Witness ==
    /\ rd.at = "done"
    /\ "response" \in DOMAIN rd
    /\ rd.req.merge
    /\ \E n \in DOMAIN rd.response \cap DOMAIN metrics :
          /\ rd.response[n].usage # Null
          /\ metrics[n].usage = Null
          /\ hist.attributed[n] = Null
          /\ \E p \in DOMAIN partialMetrics :
                n \in partialMetrics[p].matchingMetrics

\* C18: while a handler serializes the value GetMetric or ListPendingUsage
\* returned (the metric itself, the pending buffer itself), no consumer
\* mutates that metric or that buffer.
C18_ReadsUnderLock ==
    [][(rd.at = "serialize" /\ rd'.at = "serialize")
          => /\ rd.live = "pending" => usage' = usage
             /\ (rd.live = "metric"
                    /\ rd.name \in DOMAIN metrics /\ rd.name \in DOMAIN metrics')
                   => metrics'[rd.name] = metrics[rd.name]]_vars

\* A queue changes in this step only by a batch appended behind the others
\* or by its oldest batch leaving it.
FifoStep(before, after) ==
    \/ after = before
    \/ \E b \in Range(after) : after = Append(before, b)
    \/ before # <<>> /\ after = Tail(before)

\* In enqueue order and never twice: each queue only gains batches at its
\* tail and loses its oldest batch, the batch that leaves is the one its
\* consumer receives in that step, and the batch a consumer has in hand is
\* the one it applies.
AppliedInEnqueueOrder ==
    [][/\ FifoStep(metricsQueue, metricsQueue')
       /\ FifoStep(usageQueue, usageQueue')
       /\ FifoStep(partialMetricsUsageQueue, partialMetricsUsageQueue')
       /\ FifoStep(labelsQueue, labelsQueue')
       /\ Len(metricsQueue') < Len(metricsQueue)
             => mw.at = "idle" /\ mw'.batch = Head(metricsQueue)
       /\ Len(partialMetricsUsageQueue') < Len(partialMetricsUsageQueue)
             => pw.at = "idle" /\ pw'.data = Head(partialMetricsUsageQueue)
       /\ Len(usageQueue') < Len(usageQueue)
             => uw.at = "idle" /\ uw'.data = Head(usageQueue)
       /\ Len(labelsQueue') < Len(labelsQueue)
             => lw.at = "idle" /\ lw'.data = Head(labelsQueue)
       /\ (uw.at = "lock" /\ uw'.at = "idle")
             => /\ metrics' = UsageIntoMetrics(metrics, uw.data)
                /\ usage' = UsageIntoBuffer(metrics, usage, uw.data)
       /\ (lw.at = "lock" /\ lw'.at = "idle")
             => metrics' = LabelsIntoMetrics(metrics, lw.data)]_vars

\* At least once: a batch that waits in a queue is eventually received, and
\* a batch a consumer has received is eventually applied in full.
EveryBatchReceived ==
    /\ (metricsQueue # <<>>) ~> (metricsQueue = <<>>)
    /\ (usageQueue # <<>>) ~> (usageQueue = <<>>)
    /\ (partialMetricsUsageQueue # <<>>) ~> (partialMetricsUsageQueue = <<>>)
    /\ (labelsQueue # <<>>) ~> (labelsQueue = <<>>)
    /\ (mw.at # "idle") ~> (mw.at = "idle")
    /\ (pw.at # "idle") ~> (pw.at = "idle")
    /\ (uw.at # "idle") ~> (uw.at = "idle")
    /\ (lw.at # "idle") ~> (lw.at = "idle")

\* C19: within each queue the batches are applied in enqueue order, and each
\* of them is applied exactly once (never twice, and eventually once).
C19_AppliedInOrderExactlyOnce == AppliedInEnqueueOrder /\ EveryBatchReceived

\* DeleteMetric is called in this step (it returns false at once, or goes on
\* to deleteMetric).
DeleteMetricCalled ==
    /\ dm.at = "idle"
    /\ sent' = sent + 1
    /\ UNCHANGED <<metricsQueue, usageQueue, partialMetricsUsageQueue, labelsQueue>>

\* C20: DeleteMetric(name) returns false exactly when name is no key of the
\* concrete map at the call, and then the store is unchanged; otherwise it
\* returns true, and at its return name is absent from the concrete map, from
\* the absence counters and from every partial metric's matching metrics.
C20_DeleteMetricContract ==
    [][/\ DeleteMetricCalled
            => /\ (dm'.ret = "false") = (dm'.cur \notin DOMAIN metrics)
               /\ dm'.ret = "false"
                     => UNCHANGED <<metrics, metricLastTimeSeen, partialMetrics,
                                    usage>>
               /\ dm'.ret # "false" => dm'.at = "scrub"
       /\ (dm.at = "return" /\ dm'.at = "idle")
            => /\ dm'.ret = "true"
               /\ dm'.cur = dm.cur
               /\ dm.cur \notin DOMAIN metrics'
               /\ dm.cur \notin DOMAIN metricLastTimeSeen'
               /\ \A p \in DOMAIN partialMetrics' :
                     dm.cur \notin partialMetrics'[p].matchingMetrics]_vars

\* C20 witness: DeleteMetric returned true for foo_bar, which a partial
\* metric stored with a non-empty scan listed and no eviction scrubbed.
C20_Witness ==
    /\ dm.at = "idle"
    /\ dm.ret = "true"
    /\ dm.cur = "foo_bar"
    /\ dm.cur \notin DOMAIN metrics
    /\ hist.evictedLinked = {}
    /\ "foo_${suffix}" \in DOMAIN partialMetrics
    /\ "foo_${suffix}" \notin hist.storedUnmatched
    /\ partialMetrics["foo_${suffix}"].matchingMetrics = {}

\* C21: generateRegexp returns nil and no error for the empty name and for
\* every name made only of placeholders, '.+' and '.*', in any number and
\* order.
C21_UnconstrainedIsNull ==
    (call.at = "generated" /\ \A i \in DOMAIN call.frags : IsWild(call.frags[i]))
        => (call.gen.re = Null /\ ~call.gen.err)

\* C21 witness: a name of three different wildcard fragments gave nil.
C21_Witness ==
    /\ call.at = "generated"
    /\ call.frags = <<<<".", "*">>, Placeholder(<<"a">>), <<".", "+">>>>
    /\ call.gen.re = Null

\* The expression the claim describes: one '.+' for every maximal run of
\* wildcard fragments, every other character kept, '^' in front, '$' behind.
RECURSIVE NormalisedFrom(_, _, _)
NormalisedFrom(frags, i, inRun) ==
    IF i > Len(frags) THEN <<>>
    ELSE IF IsWild(frags[i])
         THEN (IF inRun THEN <<>> ELSE <<".", "+">>)
              \o NormalisedFrom(frags, i + 1, TRUE)
         ELSE frags[i] \o NormalisedFrom(frags, i + 1, FALSE)

Normalised(frags) == <<"^">> \o NormalisedFrom(frags, 1, FALSE) \o <<"$">>

HasLiteral(frags) == \E i \in DOMAIN frags : ~IsWild(frags[i])

\* C22: for a name with at least one literal character (here: none of them
\* the character '#'), generateRegexp gives '^', the name with every maximal
\* run of placeholders, '.+' and '.*' replaced by one '.+' and every other
\* character kept in order, and '$'.
C22_LiteralsKept ==
    (/\ call.at = "generated"
     /\ HasLiteral(call.frags)
     /\ \A i \in DOMAIN call.frags : call.frags[i] # <<"#">>)
        => (call.gen.re # Null /\ call.gen.re.src = Normalised(call.frags))

\* The names foo| and foo|bar.
FooOrEmpty == <<<<"f","o","o">>, <<"|">>>>
FooOrBar == <<<<"f","o","o">>, <<"|">>, <<"b","a","r">>>>

\* C23: isMatching rejects a match of zero width: it accepts no empty metric
\* name, whatever the pattern, and none the full-string match refuses; the
\* pattern of foo| does not match bar and matches foo, the pattern of
\* foo|bar matches bar.
C23_ZeroWidthRejected ==
    call.at = "matched"
        => /\ call.incremental => (call.scan /\ call.metric # <<>>)
           /\ (call.frags = FooOrEmpty /\ call.metric = <<"b","a","r">>)
                => ~call.incremental
           /\ (call.frags = FooOrEmpty /\ call.metric = <<"f","o","o">>)
                => call.incremental
           /\ (call.frags = FooOrBar /\ call.metric = <<"b","a","r">>)
                => call.incremental

\* C23 witness: the pattern of foo| matched the empty name through its empty
\* branch, with an empty match only, and isMatching rejected it.
C23_Witness ==
    /\ call.at = "matched"
    /\ call.frags = FooOrEmpty
    /\ call.metric = <<>>
    /\ call.scan
    /\ call.found = <<0>>
    /\ ~call.incremental

\* The metric has usage once the handler has merged: its own, or with
\* merge_partial_metrics that of a partial metric listing it.
UsedAfterMerge(req, list, partial, n) ==
    \/ list[n].usage # Null
    \/ /\ req.merge
       /\ \E p \in DOMAIN partial :
             n \in partial[p].matchingMetrics /\ partial[p].usage # Null

\* C24: the response of GET /metrics holds exactly the listed metrics that
\* pass the metric_name filter (when given) and the used filter (when given),
\* used=true keeping the metrics with usage and used=false those without,
\* the usage being the one after the merge of the partial metrics; with
\* neither filter it holds every listed metric.
C24_UsedFilter ==
    [][(rd.at = "filter" /\ rd'.at = "done")
          => LET req  == rd.req
                 list == rd.list.value
                 part == rd.partial.value
             IN /\ DOMAIN rd'.response =
                      {n \in DOMAIN list :
                          /\ req.name.metricName # ""
                                => isMetricMatching(n, req.name.mode,
                                                    req.name.metricName)
                          /\ req.used = "true"
                                => UsedAfterMerge(req, list, part, n)
                          /\ req.used = "false"
                                => ~UsedAfterMerge(req, list, part, n)}
                /\ \A n \in DOMAIN rd'.response :
                      /\ req.used = "true" => rd'.response[n].usage # Null
                      /\ req.used = "false" => rd'.response[n].usage = Null
                /\ (req.name.metricName = "" /\ req.used = "unset")
                      => DOMAIN rd'.response = DOMAIN list]_vars

\* C24 witness: used=true with a metric_name filter and the merge returned a
\* metric whose only usage is that of a partial metric, and left out another
\* listed metric.
C24_Witness ==
    /\ rd.at = "done"
    /\ "response" \in DOMAIN rd
    /\ rd.req.merge
    /\ rd.req.used = "true"
    /\ rd.req.name.metricName # ""
    /\ \E n \in DOMAIN rd.response \cap DOMAIN metrics :
          metrics[n].usage = Null /\ hist.attributed[n] = Null
    /\ DOMAIN metrics \ DOMAIN rd.response # {}

\* A labels batch is applied in this step.
LabelsApplied == lw.at = "lock" /\ lw'.at = "idle"

\* C25: the label set of a metric that stays in the map never loses a label,
\* whatever consumer or call takes the step, and a labels batch leaves every
\* metric it names with its former labels and those of the batch.
C25_LabelsOnlyGrow ==
    [][/\ \A n \in DOMAIN metrics \cap DOMAIN metrics' :
             metrics[n].labels \subseteq metrics'[n].labels
       /\ LabelsApplied
             => \A n \in DOMAIN lw.data :
                   /\ n \in DOMAIN metrics'
                   /\ metrics'[n].labels =
                         (IF n \in DOMAIN metrics THEN metrics[n].labels ELSE {})
                             \cup Range(lw.data[n])]_vars

\* C25 witness: foo_bar carries the labels of three different batches.
C25_Witness ==
    /\ "foo_bar" \in DOMAIN metrics
    /\ metrics["foo_bar"].labels = {"job", "instance", "le"}
    /\ labelsQueue = <<>>

\* C26: no step removes a partial metric: the key set of the partial-metric
\* map only grows.
C26_PartialMetricsKept ==
    [][DOMAIN partialMetrics \subseteq DOMAIN partialMetrics']_vars

\* C26 witness: the only metric a partial metric listed was evicted and
\* scrubbed from it, and the partial metric is still stored.
C26_Witness ==
    /\ "foo_bar" \in hist.evictedLinked
    /\ "foo_${suffix}" \in DOMAIN partialMetrics
    /\ partialMetrics["foo_${suffix}"].matchingMetrics = {}
    /\ mw.at = "idle"

\* No consumer and no DeleteMetric call is in the middle of its work.
Quiescent == mw.at = "idle" /\ pw.at = "idle" /\ dm.at = "idle"

\* C27: while no consumer is at work, every partial metric with a usable
\* pattern lists every metric of the concrete map that its pattern matches.
C27_MatchingComplete ==
    Quiescent
        => \A p \in DOMAIN partialMetrics : \A name \in DOMAIN metrics :
              Matches(p, name) => name \in partialMetrics[p].matchingMetrics

\* C28: for every pattern and metric name, the creation-time scan of
\* matchPartialMetric and the incremental test of matchValidMetric agree on
\* whether the metric belongs to the pattern's matching metrics.
C28_ScanAgreesWithIncremental ==
    call.at = "matched" => call.scan = call.incremental

\* C29: whenever no consumer holds metricsMutex, the absence counters and
\* the concrete metrics have the same keys.
C29_CountersMatchMetrics ==
    metricsMutex = "free" => DOMAIN metricLastTimeSeen = DOMAIN metrics

\* C30: a labels batch creates every name it carries that is not in the
\* concrete map, with the labels of the batch, no usage and no absence
\* counter; a metric-list batch naming a metric that is already in the map
\* leaves the metric as it is (labels included) and sets its counter to 0.
C30_LabelsCreateThenListAdopts ==
    [][/\ LabelsApplied
             => \A n \in DOMAIN lw.data \ DOMAIN metrics :
                   /\ n \in DOMAIN metrics'
                   /\ metrics'[n] = [labels |-> Range(lw.data[n]),
                                     usage |-> Null]
                   /\ n \notin DOMAIN metricLastTimeSeen'
       /\ \A name \in DOMAIN metrics :
             (mw.at = "loop" /\ ConfirmedNow(name))
                 => /\ metrics' = metrics
                    /\ name \in DOMAIN metricLastTimeSeen'
                    /\ metricLastTimeSeen'[name] = 0]_vars

\* C30 witness: foo_bar was created by a labels batch (its usage is still in
\* the pending buffer), a metric list has named it since, and it has its
\* labels and the counter 0.
C30_Witness ==
    /\ "foo_bar" \in DOMAIN metrics
    /\ metrics["foo_bar"].labels = {"job"}
    /\ "foo_bar" \in DOMAIN usage
    /\ "foo_bar" \in hist.named
    /\ "foo_bar" \in DOMAIN metricLastTimeSeen
    /\ metricLastTimeSeen["foo_bar"] = 0
    /\ mw.at = "idle"

\* The partial-usage consumer handles the entry of pattern p in this step (or
\* starts its scan).
PartialEntryHandled(p) ==
    /\ pw.at = "loop"
    /\ p \in pw.todo
    /\ \/ pw'.at = "loop" /\ pw'.todo = pw.todo \ {p}
       \/ pw'.at = "scan" /\ pw'.cur = p

\* C31: a new pattern that is unconstrained or does not compile is stored at
\* once with its usage, a nil regexp and no matching metrics, and the
\* consumer goes on with the rest of the batch; when the batch ends every
\* pattern of it is stored, the usable ones with a regexp; a partial metric
\* whose regexp is nil lists no metric, also after the metric-list consumer
\* has run matchValidMetric over it.
C31_UnusablePatternStored ==
    [][/\ \A p \in UnusablePatterns \ DOMAIN partialMetrics :
             PartialEntryHandled(p)
                 => /\ pw'.at = "loop"
                    /\ p \in DOMAIN partialMetrics'
                    /\ partialMetrics'[p] = [usage |-> pw.data[p],
                                             matchingMetrics |-> {},
                                             matchingRegexp |-> Null]
       /\ (pw.at = "loop" /\ pw'.at = "idle")
             => \A p \in DOMAIN pw.data :
                   /\ p \in DOMAIN partialMetrics'
                   /\ (partialMetrics'[p].matchingRegexp = Null)
                         = (p \in UnusablePatterns)
       /\ \A p \in DOMAIN partialMetrics' :
             partialMetrics'[p].matchingRegexp = Null
                 => partialMetrics'[p].matchingMetrics = {}]_vars

\* C31 witness: a batch with the two unusable patterns and a usable one was
\* stored, a metric list has added foo_bar since; the usable pattern lists it
\* and the unusable ones have their usage, no regexp and no metric.
C31_Witness ==
    /\ pw.at = "idle" /\ mw.at = "idle"
    /\ "foo_bar" \in DOMAIN metrics
    /\ "foo_bar" \in hist.named
    /\ UnusablePatterns \cup {"foo_${suffix}"} \subseteq DOMAIN partialMetrics
    /\ "foo_${suffix}" \in hist.storedUnmatched
    /\ partialMetrics["foo_${suffix}"].matchingMetrics = {"foo_bar"}
    /\ \A p \in UnusablePatterns :
          /\ partialMetrics[p].matchingRegexp = Null
          /\ partialMetrics[p].matchingMetrics = {}
          /\ partialMetrics[p].usage # Null

\* Some consumer has a batch to apply and needs metricsMutex for it.
ConsumerWaitsForMetricsMutex ==
    \/ uw.at = "lock"
    \/ lw.at = "lock"
    \/ mw.at = "lock"
    \/ pw.at = "scan"

\* C32: while the flush goroutine is writing the file it does not hold
\* metricsMutex, so a consumer with a batch to apply is not kept waiting by it.
C32_NoLockAcrossFileWrite ==
    (fl.at = "write" /\ ConsumerWaitsForMetricsMutex) => metricsMutex # "fl"
\* The step is watchPartialMetricsUsageQueue's else branch for pattern p:
\* the entry p of the batch is consumed and p was already stored.
MergedKnownPattern(p) ==
    /\ pw.at = "loop"
    /\ p \in pw.todo
    /\ p \in DOMAIN partialMetrics
    /\ p \notin pw'.todo

\* C33: merging the usage of a batch into a partial metric that is already
\* stored changes the usage of that partial metric and nothing else: its
\* regexp and matching metrics, every other partial metric, the concrete map
\* with its counters, and the pending buffer stay as they were.
C33_MergeChangesOnlyUsage ==
    [][\A p \in Patterns \cup UnusablePatterns :
          MergedKnownPattern(p) =>
             /\ DOMAIN partialMetrics' = DOMAIN partialMetrics
             /\ \A q \in DOMAIN partialMetrics \ {p} :
                    partialMetrics'[q] = partialMetrics[q]
             /\ partialMetrics'[p].matchingRegexp = partialMetrics[p].matchingRegexp
             /\ partialMetrics'[p].matchingMetrics = partialMetrics[p].matchingMetrics
             /\ RefsIncluded(partialMetrics[p].usage, partialMetrics'[p].usage)
             /\ RefsIncluded(pw.data[p], partialMetrics'[p].usage)
             /\ metrics' = metrics
             /\ metricLastTimeSeen' = metricLastTimeSeen
             /\ usage' = usage]_vars

\* A pattern with matching metrics holds the usage of two batches.
C33_Witness ==
    \E p \in DOMAIN partialMetrics :
        /\ partialMetrics[p].matchingMetrics # {}
        /\ partialMetrics[p].usage # Null
        /\ partialMetrics[p].usage.dashboards = {"d1"}
        /\ partialMetrics[p].usage.alertRules = {"r1"}

\* The names of the batch in hand that watchMetricsQueue's loop is done with.
ProcessedNames ==
    IF mw.at = "idle" THEN {}
    ELSE {mw.batch[k] : k \in 1..Min(mw.i - 1, Len(mw.batch))}

\* C34 as stated: while the metric-list consumer works on a batch, up to and
\* including its release of metricsMutex, every name of the batch it is done
\* with is a key of the concrete map and keeps the usage it had when it was
\* handled (the usage moved from the pending buffer included), for every
\* threshold.
C34_BatchNamesSurviveAnyThreshold ==
    [][/\ \A name \in ProcessedNames' : name \in DOMAIN metrics'
       /\ \A name \in ProcessedNames \cap DOMAIN metrics :
              metricsMutex = "mw"
                 => /\ name \in DOMAIN metrics'
                    /\ metrics'[name].usage = metrics[name].usage]_vars

\* C34 amended: the same, for every threshold >= 1.
C34_BatchNamesSurvive ==
    [][threshold >= 1
          => /\ \A name \in ProcessedNames' : name \in DOMAIN metrics'
             /\ \A name \in ProcessedNames \cap DOMAIN metrics :
                    metricsMutex = "mw"
                       => /\ name \in DOMAIN metrics'
                          /\ metrics'[name].usage = metrics[name].usage]_vars

\* C34 witness: the eviction pass of a batch is over, metricsMutex still
\* locked, and a name the batch created holds the usage moved from the pending
\* buffer.
C34_Witness ==
    /\ threshold >= 1
    /\ mw.at = "evict"
    /\ EvictionCandidates(metricLastTimeSeen, threshold) = {}
    /\ \E name \in mw.fresh \cap DOMAIN metrics : metrics[name].usage # Null

\* The metric-list consumer receives a batch (and increments the counters).
BatchStarts == mw.at = "lock" /\ mw'.at # "lock"

\* The metric-list consumer unlocks metricsMutex at the end of a batch.
BatchEnds == mw.at = "evict" /\ mw'.at = "idle"

\* C35: with a threshold of at least 1, when a metric-list batch has been
\* processed every absence counter is between 0 and threshold - 1, and the
\* increment at the start of a batch adds 1 to every counter without leaving
\* the 8 bits (no counter goes past 255 or wraps to 0).
C35_CountersBelowThreshold ==
    [][threshold >= 1
          => /\ BatchEnds
                  => \A name \in DOMAIN metricLastTimeSeen' :
                        /\ metricLastTimeSeen'[name] >= 0
                        /\ metricLastTimeSeen'[name] < threshold
             /\ BatchStarts
                  => \A name \in DOMAIN metricLastTimeSeen :
                        /\ metricLastTimeSeen'[name] = metricLastTimeSeen[name] + 1
                        /\ metricLastTimeSeen'[name] <= Uint8 - 1]_vars

\* C35 witness: with threshold 255 a counter has been incremented to 255.
C35_Witness ==
    /\ threshold = Uint8 - 1
    /\ \E name \in DOMAIN metricLastTimeSeen :
          metricLastTimeSeen[name] = Uint8 - 1

\* C36: the eviction pass deletes a metric only in a batch that is the
\* threshold-th consecutive batch omitting it, and when a batch has been
\* processed every metric that a metric-list batch reported, and that was not
\* deleted since, is in the map with fewer than threshold consecutive batches
\* omitting it: it is kept through every k < threshold omitting batches and
\* deleted by exactly the threshold-th.
C36_EvictedExactlyAtThreshold ==
    [][/\ \A name \in Names :
              EvictedNow(name) => hist.absence[name] = threshold
       /\ BatchEnds
              => \A name \in hist.reported :
                    /\ name \in DOMAIN metrics'
                    /\ hist.absence[name] < threshold]_vars

\* C36 witness: with threshold 2 the eviction pass is deleting a metric that
\* a batch had reported, in the second batch in a row omitting it.
C36_Witness ==
    /\ threshold = 2
    /\ mw.at = "scrub"
    /\ mw.cur \in hist.named
    /\ mw.cur \notin Range(mw.batch)
    /\ hist.reported # {}

\* db.ListMetrics takes its copy of the concrete map.
ListMetricsCopies == rd.at = "listMetrics" /\ rd'.at = "filter"

\* C37: when ListMetrics copies the concrete map no consumer is inside a
\* batch: the metric-list consumer is between batches or has applied nothing
\* yet of the batch it waits to lock for (usage and labels batches are
\* applied in one step under the lock), no deletion is half done,
\* and the copy is the map as the last finished batch left it.
C37_SnapshotBetweenBatches ==
    [][ListMetricsCopies
          => /\ mw.at \in {"idle", "lock"}
             /\ dm.at = "idle"
             /\ rd'.list.value = metrics]_vars

\* C37 witness: ListMetrics holds its copy while the metric-list consumer is
\* inside a later batch that has already changed the map.
C37_Witness ==
    /\ rd.at = "filter"
    /\ mw.at \in {"loop", "matchValid", "attach", "evict", "scrub"}
    /\ rd.list.value # metrics

\* Execute has run once more.
ExecuteReturns == col'.cycle # col.cycle

\* C38: a cycle of the metric collector whose query failed or returned no
\* name sends nothing to the metric-list queue and changes neither a counter
\* nor the concrete map; and with the collector as the only sender, a counter
\* advances and a metric is evicted only inside a batch of at least one name.
C38_FailedOrEmptyCycleIsInert ==
    [][/\ (ExecuteReturns /\ col'.last \in {"failed", "empty"})
            => /\ metricsQueue' = metricsQueue
               /\ metricLastTimeSeen' = metricLastTimeSeen
               /\ metrics' = metrics
       /\ (ExecuteReturns /\ col'.last = "collected")
            => /\ Len(metricsQueue') = Len(metricsQueue) + 1
               /\ metricsQueue'[Len(metricsQueue')] # <<>>
       /\ (metricLastTimeSeen' # metricLastTimeSeen \/ EvictedNow(mw'.cur))
            => mw'.batch # <<>>]_vars

\* C38 witness: a cycle has just failed or come back empty while a metric has
\* a counter above 0 and nothing waits in the queue.
C38_Witness ==
    /\ col.last \in {"failed", "empty"}
    /\ metricsQueue = <<>>
    /\ mw.at = "idle"
    /\ \E name \in DOMAIN metricLastTimeSeen : metricLastTimeSeen[name] >= 1

====
